---- MODULE Spec2Model ----
(***************************************************************************)
(* DeskTidy: the concurrent batch processor (core/batch_processor.py) and  *)
(* the delete guard it is specified to consult (core/file_ops.py).         *)
(*                                                                         *)
(* One behaviour is one BatchProcessor object: construction, then one      *)
(* process_batch(files, operation) call on the caller's thread, the        *)
(* ThreadPoolExecutor's worker threads running process_file, and           *)
(* stop_processing() calls arriving from any other thread at any time.     *)
(***************************************************************************)
EXTENDS Integers, Sequences, FiniteSets, TLC

(* ---------------------------- bounds ----------------------------------- *)

\* longest batch handed to process_batch
MaxFiles == 2
\* largest max_workers handed to the constructor
MaxWorkers == 2

(* ----------------------- program constants ----------------------------- *)

\* future.result(timeout=30)
ResultTimeout == 30
\* BatchProcessor.__init__(self, max_workers=4)
DefaultMaxWorkers == 4
\* 100 * 1024 * 1024, the size ceiling of safe_delete
MaxDeleteSize == 104857600

(* ------------------------- the file system ----------------------------- *)

\* What a path names at the moment an operation looks at it.  kind is
\* "none" (nothing there), "file", "dir", "symlink" (a symbolic link whose
\* target exists) or "dangling" (one whose target does not); duration is the
\* number of time units os.remove takes on it.
Absent == [kind |-> "none", suffix |-> "", is_home |-> FALSE, st_size |-> 0, duration |-> 1]
Regular == [kind |-> "file", suffix |-> ".tmp", is_home |-> FALSE, st_size |-> 1, duration |-> 1]
SlowRegular == [Regular EXCEPT !.duration = ResultTimeout + 1]
PyFile == [Regular EXCEPT !.suffix = ".py"]
LargeFile == [Regular EXCEPT !.st_size = MaxDeleteSize + 1]
Symlink == [Regular EXCEPT !.kind = "symlink"]
HomeDir == [kind |-> "dir", suffix |-> "", is_home |-> TRUE, st_size |-> 1, duration |-> 1]

DiskEntries == {Absent, Regular, SlowRegular, PyFile, LargeFile, Symlink, HomeDir}

\* self.safe_extensions
safe_extensions == {".exe", ".dll", ".sys", ".bat", ".cmd", ".ps1",
                    ".sh", ".py", ".js", ".php", ".html", ".xml"}

\* Path.exists(): follows symbolic links
path_exists(e) == e.kind \notin {"none", "dangling"}

\* Path.is_symlink()
is_symlink(e) == e.kind \in {"symlink", "dangling"}

\* the suffixes a path of the model can have
Suffixes == {"", ".tmp", ".py", ".PY"}

\* str.lower() on a suffix
LowerSuffix(x) == IF x = ".PY" THEN ".py" ELSE IF x = ".TMP" THEN ".tmp" ELSE x

\* the checks in another order: the extension is looked at first
safe_delete_check_ExtensionFirst(e) ==
    IF LowerSuffix(e.suffix) \in safe_extensions
    THEN [allowed |-> FALSE, message |-> "Unsafe extension: " \o e.suffix, checks |-> 4]
    ELSE IF ~path_exists(e) THEN [allowed |-> FALSE, message |-> "File does not exist", checks |-> 1]
    ELSE IF is_symlink(e) THEN [allowed |-> FALSE, message |-> "Cannot delete symbolic links", checks |-> 2]
    ELSE IF e.is_home THEN [allowed |-> FALSE, message |-> "Cannot delete home directory", checks |-> 3]
    ELSE IF e.st_size > MaxDeleteSize THEN [allowed |-> FALSE, message |-> "Large file detected", checks |-> 5]
    ELSE [allowed |-> TRUE, message |-> "ok", checks |-> 5]

\* FileOperations.safe_delete up to the point where it deletes: the verdict
\* of the five checks, in the order of the code; checks is the number of
\* checks evaluated.
safe_delete_check(e) ==
    IF ~path_exists(e) THEN [allowed |-> FALSE, message |-> "File does not exist", checks |-> 1]
    ELSE IF is_symlink(e) THEN [allowed |-> FALSE, message |-> "Cannot delete symbolic links", checks |-> 2]
    ELSE IF e.is_home THEN [allowed |-> FALSE, message |-> "Cannot delete home directory", checks |-> 3]
    ELSE IF LowerSuffix(e.suffix) \in safe_extensions
         THEN [allowed |-> FALSE, message |-> "Unsafe extension: " \o e.suffix, checks |-> 4]
    ELSE IF e.st_size > MaxDeleteSize THEN [allowed |-> FALSE, message |-> "Large file detected", checks |-> 5]
    ELSE [allowed |-> TRUE, message |-> "ok", checks |-> 5]

\* os.remove(path): unlinks a file or a symlink, raises FileNotFoundError
\* when nothing is there and IsADirectoryError/PermissionError on a directory.
os_remove(e) ==
    IF e.kind = "none" THEN [raised |-> TRUE, error |-> "No such file or directory", entry |-> e]
    ELSE IF e.kind = "dir" THEN [raised |-> TRUE, error |-> "Is a directory", entry |-> e]
    ELSE [raised |-> FALSE, error |-> "", entry |-> Absent]

\* FileOperations.safe_delete(filepath, send_to_trash) on a path naming e:
\* what it returns and what the path names afterwards.
safe_delete(e, send_to_trash, trash_works) ==
    LET verdict == safe_delete_check(e)
    IN IF ~verdict.allowed
       THEN [success |-> FALSE, message |-> verdict.message, checks |-> verdict.checks, entry |-> e]
       ELSE IF send_to_trash /\ trash_works
            THEN [success |-> TRUE, message |-> "Sent to trash", checks |-> verdict.checks,
                  entry |-> Absent]
            ELSE LET rm == os_remove(e)
                 IN IF rm.raised
                    THEN [success |-> FALSE, message |-> "Error: " \o rm.error,
                          checks |-> verdict.checks, entry |-> rm.entry]
                    ELSE [success |-> TRUE, message |-> "Permanently deleted",
                          checks |-> verdict.checks, entry |-> rm.entry]

\* What a path handed to safe_delete can name.
GuardEntries ==
    {e \in [kind : {"none", "file", "dir", "symlink", "dangling"}, suffix : Suffixes,
            is_home : BOOLEAN, st_size : {0, MaxDeleteSize, MaxDeleteSize + 1},
            duration : {Regular.duration}] :
        /\ e.is_home => e.kind \in {"dir", "symlink"}
        /\ e.kind \in {"none", "dangling"} => e.st_size = 0}

(* -------------------------- RulesEngine -------------------------------- *)

\* longest delete_extensions, name_patterns and excluded_folders list
MaxPatterns == 2

\* 1024 * 1024
MiB == 1048576
\* score >= 2
DeleteThreshold == 2
\* score -= 10
ProtectionPenalty == 10

\* the function with no argument: a dict without keys
EmptyDict == [k \in {} |-> 0]

\* sub in s, on strings written as sequences of characters
IsSubstring(sub, s) ==
    \E i \in 0..(Len(s) - Len(sub)) : SubSeq(s, i + 1, i + Len(sub)) = sub

\* str.lower() on one character
LowerChar(c) == IF c = "C" THEN "c" ELSE IF c = "A" THEN "a" ELSE IF c = "H" THEN "h"
                ELSE IF c = "E" THEN "e" ELSE IF c = "T" THEN "t"
                ELSE IF c = "M" THEN "m" ELSE IF c = "P" THEN "p" ELSE c
\* str.lower()
Lower(str) == [i \in DOMAIN str |-> LowerChar(str[i])]

\* file names
NameCache == <<"c", "a", "c", "h", "e">>
NameCacheUpper == <<"C", "A", "C", "H", "E">>
NameNotes == <<"n", "o", "t", "e", "s">>

\* paths
PathPlain == <<"/", "x", "/", "a">>
PathDocs == <<"/", "d", "/", "a">>
PathDocsSys == <<"/", "d", "/", "s", "/", "a">>

\* A regular expression is written as its source text, whether it
\* compiles, and the lower-case strings it matches (ignoring case) among
\* those of the model.
PatTmp == [src |-> "\\.tmp$", ok |-> TRUE, lang |-> {".tmp"}]
PatAnyExt == [src |-> ".*", ok |-> TRUE, lang |-> {"", ".tmp", ".log", ".jpg", ".txt"}]
PatCache == [src |-> "cache", ok |-> TRUE, lang |-> {NameCache}]
PatNotes == [src |-> "notes", ok |-> TRUE, lang |-> {NameNotes}]
PatAnyName == [src |-> ".", ok |-> TRUE, lang |-> {NameCache, NameNotes}]
PatBad == [src |-> "[", ok |-> FALSE, lang |-> {}]

\* re.match(pattern, extension, re.IGNORECASE): re.error for a pattern that
\* does not compile
re_match(pattern, extension) ==
    [raised |-> ~pattern.ok, matched |-> LowerSuffix(extension) \in pattern.lang]

\* re.search(pattern, name, re.IGNORECASE)
re_search(pattern, name) ==
    [raised |-> ~pattern.ok, matched |-> Lower(name) \in pattern.lang]

\* 'word' in mime_type, for the MIME types of the model
MimeContains(word, mime_type) ==
    \/ word = "image" /\ mime_type = "image/png"
    \/ word = "text" /\ mime_type = "text/plain"
    \/ word = "video" /\ mime_type = "video/mp4"
    \/ word = "audio" /\ mime_type = "audio/mpeg"

image_exts == {".jpg", ".jpeg", ".png", ".gif", ".bmp", ".tiff", ".webp"}
doc_exts == {".pdf", ".doc", ".docx", ".xls", ".xlsx", ".ppt", ".pptx", ".txt"}
video_exts == {".mp4", ".avi", ".mov", ".wmv", ".flv", ".mkv"}
audio_exts == {".mp3", ".wav", ".aac", ".flac", ".ogg"}
archive_exts == {".zip", ".rar", ".7z", ".tar", ".gz"}
temp_exts == {".tmp", ".temp", ".bak", ".old"}

\* RulesEngine.categorize_file(file_info); mime_type is "" when the record
\* has none (file_info.get('mime_type', ''))
categorize_file(file_info) ==
    LET extension == LowerSuffix(file_info.extension)
        mime_type == file_info.mime_type
    IN IF extension \in image_exts \/ MimeContains("image", mime_type) THEN "images"
       ELSE IF extension \in doc_exts \/ MimeContains("text", mime_type) THEN "documents"
       ELSE IF extension \in video_exts \/ MimeContains("video", mime_type) THEN "videos"
       ELSE IF extension \in audio_exts \/ MimeContains("audio", mime_type) THEN "audio"
       ELSE IF extension \in archive_exts THEN "archives"
       ELSE IF extension \in temp_exts THEN "temporary"
       ELSE IF extension = ".log" THEN "logs"
       ELSE "other"

\* score and reasons before the first rule
NoScore == [raised |-> FALSE, score |-> 0, reasons |-> <<>>]

\* score += n; reasons.append(reason)
Scored(acc, n, reason) ==
    [acc EXCEPT !.score = @ + n, !.reasons = Append(@, reason)]

\* the age rule of evaluate_file
AgeRule(rules, file_info, acc) ==
    IF "max_age_days" \in DOMAIN rules /\ file_info.age_days > rules.max_age_days
    THEN Scored(acc, 1, <<"Old file", "">>)
    ELSE acc

\* the size rule of evaluate_file
SizeRule(rules, file_info, acc) ==
    IF "min_size_mb" \in DOMAIN rules /\ file_info.size > rules.min_size_mb * MiB
    THEN Scored(acc, 1, <<"Large file", "">>)
    ELSE acc

\* for pattern in self.rules['delete_extensions'], from the i-th pattern on
RECURSIVE ExtensionLoop(_, _, _, _)
ExtensionLoop(patterns, i, file_info, acc) ==
    IF i > Len(patterns) THEN acc
    ELSE LET m == re_match(patterns[i], file_info.extension)
         IN IF m.raised THEN [acc EXCEPT !.raised = TRUE]
            ELSE IF m.matched
                 THEN Scored(acc, 2, <<"Extension matches", patterns[i].src>>)
                 ELSE ExtensionLoop(patterns, i + 1, file_info, acc)

\* the extension rule of evaluate_file
ExtensionRule(rules, file_info, acc) ==
    IF "delete_extensions" \in DOMAIN rules
    THEN ExtensionLoop(rules.delete_extensions, 1, file_info, acc)
    ELSE acc

\* for pattern in self.rules['name_patterns'], from the i-th pattern on
RECURSIVE NameLoop(_, _, _, _)
NameLoop(patterns, i, file_info, acc) ==
    IF i > Len(patterns) THEN acc
    ELSE LET m == re_search(patterns[i], file_info.name)
         IN IF m.raised THEN [acc EXCEPT !.raised = TRUE]
            ELSE NameLoop(patterns, i + 1, file_info,
                          IF m.matched
                          THEN Scored(acc, 1, <<"Name matches pattern", patterns[i].src>>)
                          ELSE acc)

\* the name rule of evaluate_file
NameRule(rules, file_info, acc) ==
    IF "name_patterns" \in DOMAIN rules
    THEN NameLoop(rules.name_patterns, 1, file_info, acc)
    ELSE acc

\* the loop stops at the first protected folder found
RECURSIVE FolderLoop_FirstOnly(_, _, _, _)
FolderLoop_FirstOnly(folders, i, file_info, acc) ==
    IF i > Len(folders) THEN acc
    ELSE IF IsSubstring(folders[i], file_info.path)
         THEN Scored(acc, 0 - ProtectionPenalty, <<"Protected folder", folders[i]>>)
         ELSE FolderLoop_FirstOnly(folders, i + 1, file_info, acc)

\* for folder in self.rules['excluded_folders'], from the i-th folder on
RECURSIVE FolderLoop(_, _, _, _)
FolderLoop(folders, i, file_info, acc) ==
    IF i > Len(folders) THEN acc
    ELSE FolderLoop(folders, i + 1, file_info,
                    IF IsSubstring(folders[i], file_info.path)
                    THEN Scored(acc, 0 - ProtectionPenalty, <<"Protected folder", folders[i]>>)
                    ELSE acc)

\* the excluded-folders rule of evaluate_file
FolderRule(rules, file_info, acc) ==
    IF "excluded_folders" \in DOMAIN rules
    THEN FolderLoop(rules.excluded_folders, 1, file_info, acc)
    ELSE acc

\* the category rule of evaluate_file; categories maps a category to its
\* delete flag (category_rules.get('delete', False))
CategoryRule(rules, file_info, acc) ==
    IF "categories" \in DOMAIN rules
    THEN LET file_category == categorize_file(file_info)
         IN IF file_category \in DOMAIN rules.categories /\ rules.categories[file_category]
            THEN Scored(acc, 3, <<"Category", file_category>>)
            ELSE acc
    ELSE acc

\* the category rule is applied before the excluded-folders rule
evaluate_file_CategoryEarly(rules, file_info) ==
    LET a1 == AgeRule(rules, file_info, NoScore)
        a2 == SizeRule(rules, file_info, a1)
        a3 == ExtensionRule(rules, file_info, a2)
        a4 == IF a3.raised THEN a3 ELSE NameRule(rules, file_info, a3)
        a5 == IF a4.raised THEN a4 ELSE CategoryRule(rules, file_info, a4)
        a6 == IF a5.raised THEN a5 ELSE FolderRule(rules, file_info, a5)
    IN [raised |-> a6.raised, decision |-> a6.score >= DeleteThreshold,
        score |-> a6.score, reasons |-> a6.reasons]

\* RulesEngine.evaluate_file(file_info) under self.rules = rules: whether
\* it raises, and else the decision, the reasons, and the local score
evaluate_file(rules, file_info) ==
    LET a1 == AgeRule(rules, file_info, NoScore)
        a2 == SizeRule(rules, file_info, a1)
        a3 == ExtensionRule(rules, file_info, a2)
        a4 == IF a3.raised THEN a3 ELSE NameRule(rules, file_info, a3)
        a5 == IF a4.raised THEN a4 ELSE FolderRule(rules, file_info, a4)
        a6 == IF a5.raised THEN a5 ELSE CategoryRule(rules, file_info, a5)
    IN [raised |-> a6.raised, decision |-> a6.score >= DeleteThreshold,
        score |-> a6.score, reasons |-> a6.reasons]

\* a configuration value as validate_rules sees it: its Python type and,
\* for a number, its value (a bool is 1 or 0)
PyInt(n) == [type |-> "int", v |-> n]
PyFloat(n) == [type |-> "float", v |-> n]
PyBool(b) == [type |-> "bool", v |-> IF b THEN 1 ELSE 0]
PyStr == [type |-> "str", v |-> 0]
PyNone == [type |-> "NoneType", v |-> 0]

\* isinstance(x, types): bool is a subclass of int
isinstance(x, types) == x.type \in types \/ (x.type = "bool" /\ "int" \in types)

\* validate_rules rejecting zero as well
validate_rules_ZeroRejected(rules) ==
    LET age == IF "max_age_days" \in DOMAIN rules
                  /\ (~isinstance(rules.max_age_days, {"int"}) \/ rules.max_age_days.v <= 0)
               THEN <<"max_age_days must be a positive integer">> ELSE <<>>
        size == IF "min_size_mb" \in DOMAIN rules
                   /\ (~isinstance(rules.min_size_mb, {"int", "float"})
                       \/ rules.min_size_mb.v <= 0)
                THEN <<"min_size_mb must be a positive number">> ELSE <<>>
    IN [raised |-> FALSE, errors |-> age \o size]

\* RulesEngine.validate_rules() under self.rules = rules
validate_rules(rules) ==
    LET age == IF "max_age_days" \in DOMAIN rules
                  /\ (~isinstance(rules.max_age_days, {"int"}) \/ rules.max_age_days.v < 0)
               THEN <<"max_age_days must be a positive integer">> ELSE <<>>
        size == IF "min_size_mb" \in DOMAIN rules
                   /\ (~isinstance(rules.min_size_mb, {"int", "float"})
                       \/ rules.min_size_mb.v < 0)
                THEN <<"min_size_mb must be a positive number">> ELSE <<>>
    IN [raised |-> FALSE, errors |-> age \o size]

(* --------------------------- FileCleaner ------------------------------- *)

\* the most files under the folder
MaxEntries == 2
\* the longest list filter_files is given
MaxRecords == 2

\* rules.get('file_age_days', 30)
DefaultFileAgeDays == 30
\* rules.get('min_size_mb', 1)
DefaultMinSizeMb == 1

\* file names
NameATmp == <<"a", ".", "t", "m", "p">>
NameATmpUpper == <<"a", ".", "T", "M", "P">>
NameBLog == <<"b", ".", "l", "o", "g">>
NameNotesTxt == <<"n", "o", "t", "e", "s", ".", "t", "x", "t">>
NameCacheDat == <<"C", "a", "c", "h", "e", ".", "d", "a", "t">>
NameOldBak == <<"o", ".", "b", "a", "k">>
NameTTemp == <<"t", ".", "t", "e", "m", "p">>

\* extensions
ExtTmp == <<".", "t", "m", "p">>
ExtTemp == <<".", "t", "e", "m", "p">>
ExtLog == <<".", "l", "o", "g">>
ExtDat == <<".", "d", "a", "t">>

\* os.path.splitext(filename)[1]: from the last dot on, a leading dot apart
splitext(filename) ==
    LET dots == {i \in 2..Len(filename) : filename[i] = "."}
    IN IF dots = {} THEN <<>>
       ELSE SubSeq(filename, CHOOSE i \in dots : \A j \in dots : j <= i, Len(filename))

\* what self.folder_path names
FolderKinds == {"directory", "missing", "file"}

\* os.walk(self.folder_path): the files below the folder in traversal
\* order; nothing, and no error, when the folder cannot be listed
os_walk(folder) == IF folder.kind = "directory" THEN folder.entries ELSE <<>>

\* the for loops of scan_files from file i on; os.stat raises for a file
\* that cannot be read and the file is skipped
RECURSIVE ScanLoop(_, _, _, _)
ScanLoop(entries, i, files, total) ==
    IF i > Len(entries) THEN [raised |-> FALSE, files |-> files, total_size |-> total]
    ELSE IF entries[i].stat_ok
         THEN ScanLoop(entries, i + 1,
                       Append(files, [path |-> <<"/", "d", "/">> \o entries[i].filename,
                                      name |-> entries[i].filename,
                                      size |-> entries[i].st_size,
                                      modified |-> entries[i].st_mtime,
                                      extension |-> Lower(splitext(entries[i].filename))]),
                       total + entries[i].st_size)
         ELSE ScanLoop(entries, i + 1, files, total)

\* scan_files without self.total_size = 0
scan_files_KeepsTotal(folder, total_size) ==
    ScanLoop(os_walk(folder), 1, <<>>, total_size)

\* FileCleaner.scan_files() with self.total_size = total_size on entry: the
\* list returned and self.total_size afterwards
scan_files(folder, total_size) ==
    LET reset == 0
    IN ScanLoop(os_walk(folder), 1, <<>>, reset)

\* rules.get(key, default)
dict_get(rules, key, default) == IF key \in DOMAIN rules THEN rules[key] ELSE default

\* x in list
InList(x, list) == \E i \in DOMAIN list : list[i] = x

\* the built-in rules read as a switch: the first enabled rule decides
FilterBuiltin_FirstEnabledDecides(rules, file) ==
    IF dict_get(rules, "delete_tmp", TRUE) THEN file.extension \in {ExtTmp, ExtTemp}
    ELSE IF dict_get(rules, "delete_log", FALSE) THEN file.extension = ExtLog
    ELSE IF dict_get(rules, "delete_cache", FALSE)
         THEN IsSubstring(NameCache, Lower(file.name))
    ELSE FALSE

\* the if / elif / elif of the built-in extension rules
FilterBuiltin(rules, file) ==
    IF dict_get(rules, "delete_tmp", TRUE) /\ file.extension \in {ExtTmp, ExtTemp} THEN TRUE
    ELSE IF dict_get(rules, "delete_log", FALSE) /\ file.extension = ExtLog THEN TRUE
    ELSE IF dict_get(rules, "delete_cache", FALSE) /\ IsSubstring(NameCache, Lower(file.name))
         THEN TRUE
    ELSE FALSE

\* file['extension'] in custom_extensions
FilterCustom(rules, file) == InList(file.extension, dict_get(rules, "custom_extensions", <<>>))

\* (datetime.now() - file['modified']).days > file_age_days
FilterAge(rules, file) == file.age_days > dict_get(rules, "file_age_days", DefaultFileAgeDays)

\* the size rule turned round: files below the threshold
FilterSize_Below(rules, file) ==
    file.size < dict_get(rules, "min_size_mb", DefaultMinSizeMb) * MiB

\* file['size'] > min_size_mb * 1024 * 1024
FilterSize(rules, file) == file.size > dict_get(rules, "min_size_mb", DefaultMinSizeMb) * MiB

\* should_delete at the end of one pass of the loop of filter_files
should_delete(rules, file) ==
    LET s1 == FilterBuiltin(rules, file)
        s2 == IF FilterCustom(rules, file) THEN TRUE ELSE s1
        s3 == IF FilterAge(rules, file) THEN TRUE ELSE s2
        s4 == IF FilterSize(rules, file) THEN TRUE ELSE s3
    IN s4

\* FileCleaner.filter_files(files, rules)
filter_files(files, rules) == SelectSeq(files, LAMBDA file : should_delete(rules, file))

(* ------------------------- SettingsManager ----------------------------- *)

\* the longest custom_extensions list
MaxExtensions == 2

\* further Python values: a string is its characters, a list its elements,
\* a dict its items in insertion order, each a pair of key and value
PyString(chars) == [type |-> "str", v |-> chars]
PyList(elems) == [type |-> "list", v |-> elems]
PyDict(items) == [type |-> "dict", v |-> items]

\* key names and string values, character by character
KeyTheme == <<"t", "h", "e", "m", "e">>
KeyRules == <<"r", "u", "l", "e", "s">>
KeyAutoPreview == <<"a", "u", "t", "o", "_", "p", "r", "e", "v", "i", "e", "w">>
KeyConfirm == <<"c", "o", "n", "f", "i", "r", "m">>
KeyMaxFileSize == <<"m", "a", "x">>
KeyDeleteTmp == <<"d", "e", "l", "e", "t", "e", "_", "t", "m", "p">>
KeyDeleteLog == <<"d", "e", "l", "e", "t", "e", "_", "l", "o", "g">>
KeyDeleteCache == <<"d", "e", "l", "e", "t", "e", "_", "c", "a", "c", "h", "e">>
KeyFileAgeDays == <<"f", "i", "l", "e", "_", "a", "g", "e", "_", "d", "a", "y", "s">>
KeyMinSizeMb == <<"m", "i", "n", "_", "s", "i", "z", "e", "_", "m", "b">>
KeyCustomExtensions == <<"c", "u", "s", "t", "o", "m">>
StrLight == <<"l", "i", "g", "h", "t">>
StrBak == <<".", "b", "a", "k">>
StrOld == <<".", "o", "l", "d">>
\* a string holding a double quote, a backslash and a space
StrQuoted == <<"a", "\"", "\\", " ", "b">>

Digits == <<"0", "1", "2", "3", "4", "5", "6", "7", "8", "9">>

\* str(n) for n >= 0
RECURSIVE NatChars(_)
NatChars(n) ==
    IF n < 10 THEN <<Digits[n + 1]>>
    ELSE NatChars(n \div 10) \o <<Digits[(n % 10) + 1]>>

\* int.__repr__
IntChars(n) == IF n < 0 THEN <<"-">> \o NatChars(0 - n) ELSE NatChars(n)

\* the JSON encoder's escaping of one character of a string
EscapeChar(c) ==
    IF c = "\"" THEN <<"\\", "\"">>
    ELSE IF c = "\\" THEN <<"\\", "\\">>
    ELSE <<c>>

\* a string written without escaping
RECURSIVE EncodeString_Raw(_)
EncodeString_Raw(chars) ==
    IF chars = <<>> THEN <<>> ELSE <<Head(chars)>> \o EncodeString_Raw(Tail(chars))

\* the characters of a string between its quotes
RECURSIVE EncodeString(_)
EncodeString(chars) ==
    IF chars = <<>> THEN <<>> ELSE EscapeChar(Head(chars)) \o EncodeString(Tail(chars))

\* a newline and indent=2 spaces per level
RECURSIVE Indent(_)
Indent(depth) == IF depth = 0 THEN <<"\n">> ELSE Indent(depth - 1) \o <<" ", " ">>

\* json.dump(x, f, indent=2): the text written for x at nesting depth
RECURSIVE json_dump(_, _)
RECURSIVE DumpElems(_, _, _)
RECURSIVE DumpItems(_, _, _)
DumpElems(elems, i, depth) ==
    IF i > Len(elems) THEN <<>>
    ELSE (IF i > 1 THEN <<",">> ELSE <<>>) \o Indent(depth) \o json_dump(elems[i], depth)
         \o DumpElems(elems, i + 1, depth)
DumpItems(items, i, depth) ==
    IF i > Len(items) THEN <<>>
    ELSE (IF i > 1 THEN <<",">> ELSE <<>>) \o Indent(depth)
         \o <<"\"">> \o EncodeString(items[i][1]) \o <<"\"", ":", " ">>
         \o json_dump(items[i][2], depth)
         \o DumpItems(items, i + 1, depth)
json_dump(x, depth) ==
    CASE x.type = "int" -> IntChars(x.v)
      [] x.type = "float" -> IntChars(x.v) \o <<".", "0">>
      [] x.type = "bool" -> IF x.v = 1 THEN <<"t", "r", "u", "e">> ELSE <<"f", "a", "l", "s", "e">>
      [] x.type = "NoneType" -> <<"n", "u", "l", "l">>
      [] x.type = "str" -> <<"\"">> \o EncodeString(x.v) \o <<"\"">>
      [] x.type = "list" ->
            IF x.v = <<>> THEN <<"[", "]">>
            ELSE <<"[">> \o DumpElems(x.v, 1, depth + 1) \o Indent(depth) \o <<"]">>
      [] x.type = "dict" ->
            IF x.v = <<>> THEN <<"{", "}">>
            ELSE <<"{">> \o DumpItems(x.v, 1, depth + 1) \o Indent(depth) \o <<"}">>

\* the decoder's result: whether the text read so far is well formed, the
\* value read and the position of the next character
ParseFail(pos) == [ok |-> FALSE, value |-> PyNone, pos |-> pos]
ParseOk(x, pos) == [ok |-> TRUE, value |-> x, pos |-> pos]

\* the character at pos, "" past the end of the text
CharAt(text, pos) == IF pos <= Len(text) THEN text[pos] ELSE ""

IsDigit(c) == \E i \in DOMAIN Digits : Digits[i] = c
DigitValue(c) == (CHOOSE i \in DOMAIN Digits : Digits[i] = c) - 1

RECURSIVE SkipWhitespace(_, _)
SkipWhitespace(text, pos) ==
    IF CharAt(text, pos) \in {" ", "\n"} THEN SkipWhitespace(text, pos + 1) ELSE pos

\* the digits from pos on, as a number
RECURSIVE ScanDigits(_, _, _)
ScanDigits(text, pos, acc) ==
    IF IsDigit(CharAt(text, pos))
    THEN ScanDigits(text, pos + 1, acc * 10 + DigitValue(CharAt(text, pos)))
    ELSE [value |-> acc, pos |-> pos]

\* a JSON number: an int, or a float when a fraction follows; the
\* fractions of the model are all .0
ParseNumber(text, pos) ==
    LET negative == CharAt(text, pos) = "-"
        start == IF negative THEN pos + 1 ELSE pos
        whole == ScanDigits(text, start, 0)
        signed == IF negative THEN 0 - whole.value ELSE whole.value
    IN IF ~IsDigit(CharAt(text, start)) THEN ParseFail(pos)
       ELSE IF CharAt(text, whole.pos) = "." /\ IsDigit(CharAt(text, whole.pos + 1))
            THEN ParseOk(PyFloat(signed), ScanDigits(text, whole.pos + 1, 0).pos)
            ELSE ParseOk(PyInt(signed), whole.pos)

\* the characters of a string up to its closing quote, escapes undone
RECURSIVE ScanString(_, _, _)
ScanString(text, pos, acc) ==
    LET c == CharAt(text, pos)
    IN IF c = "" THEN ParseFail(pos)
       ELSE IF c = "\"" THEN ParseOk(PyString(acc), pos + 1)
       ELSE IF c = "\\"
            THEN IF CharAt(text, pos + 1) \in {"\"", "\\"}
                 THEN ScanString(text, pos + 2, Append(acc, CharAt(text, pos + 1)))
                 ELSE ParseFail(pos)
       ELSE ScanString(text, pos + 1, Append(acc, c))

\* true, false or null
ParseLiteral(text, pos, word, x) ==
    IF pos + Len(word) - 1 <= Len(text) /\ SubSeq(text, pos, pos + Len(word) - 1) = word
    THEN ParseOk(x, pos + Len(word))
    ELSE ParseFail(pos)

\* the JSON decoder: the value that starts at pos
RECURSIVE parse_value(_, _)
RECURSIVE ParseElems(_, _, _)
RECURSIVE ParseItems(_, _, _)
ParseElems(text, pos, acc) ==
    LET elem == parse_value(text, pos)
        after == SkipWhitespace(text, elem.pos)
    IN IF ~elem.ok THEN ParseFail(pos)
       ELSE IF CharAt(text, after) = ","
            THEN ParseElems(text, after + 1, Append(acc, elem.value))
       ELSE IF CharAt(text, after) = "]"
            THEN ParseOk(PyList(Append(acc, elem.value)), after + 1)
       ELSE ParseFail(after)
ParseItems(text, pos, acc) ==
    LET start == SkipWhitespace(text, pos)
        key == ScanString(text, start + 1, <<>>)
        colon == SkipWhitespace(text, key.pos)
        val == parse_value(text, colon + 1)
        after == SkipWhitespace(text, val.pos)
    IN IF CharAt(text, start) # "\"" \/ ~key.ok THEN ParseFail(start)
       ELSE IF CharAt(text, colon) # ":" \/ ~val.ok THEN ParseFail(colon)
       ELSE IF CharAt(text, after) = ","
            THEN ParseItems(text, after + 1, Append(acc, <<key.value.v, val.value>>))
       ELSE IF CharAt(text, after) = "}"
            THEN ParseOk(PyDict(Append(acc, <<key.value.v, val.value>>)), after + 1)
       ELSE ParseFail(after)
parse_value(text, pos) ==
    LET start == SkipWhitespace(text, pos)
        c == CharAt(text, start)
    IN IF c = "{"
       THEN IF CharAt(text, SkipWhitespace(text, start + 1)) = "}"
            THEN ParseOk(PyDict(<<>>), SkipWhitespace(text, start + 1) + 1)
            ELSE ParseItems(text, start + 1, <<>>)
       ELSE IF c = "["
       THEN IF CharAt(text, SkipWhitespace(text, start + 1)) = "]"
            THEN ParseOk(PyList(<<>>), SkipWhitespace(text, start + 1) + 1)
            ELSE ParseElems(text, start + 1, <<>>)
       ELSE IF c = "\"" THEN ScanString(text, start + 1, <<>>)
       ELSE IF c = "t" THEN ParseLiteral(text, start, <<"t", "r", "u", "e">>, PyBool(TRUE))
       ELSE IF c = "f" THEN ParseLiteral(text, start, <<"f", "a", "l", "s", "e">>, PyBool(FALSE))
       ELSE IF c = "n" THEN ParseLiteral(text, start, <<"n", "u", "l", "l">>, PyNone)
       ELSE IF c = "-" \/ IsDigit(c) THEN ParseNumber(text, start)
       ELSE ParseFail(start)

\* json.load(f): the value of the whole text, or JSONDecodeError
json_load(text) ==
    LET r == parse_value(text, 1)
    IN IF r.ok /\ SkipWhitespace(text, r.pos) > Len(text)
       THEN [raised |-> FALSE, value |-> r.value]
       ELSE [raised |-> TRUE, value |-> PyNone]

\* whether the dict holds the key, and d[key]
HasKey(d, key) == \E i \in DOMAIN d.v : d.v[i][1] = key
Lookup(d, key) == d.v[CHOOSE i \in DOMAIN d.v : d.v[i][1] = key][2]

\* d[key] = x
dict_set(d, key, x) ==
    IF HasKey(d, key)
    THEN PyDict([i \in DOMAIN d.v |-> IF d.v[i][1] = key THEN <<key, x>> ELSE d.v[i]])
    ELSE PyDict(Append(d.v, <<key, x>>))

\* d.update(other), item i of other onwards
RECURSIVE dict_update(_, _, _)
dict_update(d, other, i) ==
    IF i > Len(other.v) THEN d
    ELSE dict_update(dict_set(d, other.v[i][1], other.v[i][2]), other, i + 1)

\* SettingsManager.get_default_settings()
DefaultRules ==
    PyDict(<< <<KeyDeleteTmp, PyBool(TRUE)>>, <<KeyDeleteLog, PyBool(FALSE)>>,
              <<KeyDeleteCache, PyBool(FALSE)>>, <<KeyFileAgeDays, PyInt(30)>>,
              <<KeyMinSizeMb, PyInt(1)>>,
              <<KeyCustomExtensions, PyList(<<PyString(StrBak), PyString(StrOld)>>)>> >>)
get_default_settings ==
    PyDict(<< <<KeyTheme, PyString(StrLight)>>, <<KeyRules, DefaultRules>>,
              <<KeyAutoPreview, PyBool(FALSE)>>, <<KeyConfirm, PyBool(TRUE)>>,
              <<KeyMaxFileSize, PyInt(100)>> >>)

\* no settings.json
NoFile == [exists |-> FALSE, text |-> <<>>]
FileOf(text) == [exists |-> TRUE, text |-> text]

\* SettingsManager().load(): self.settings of a fresh manager afterwards
load(file) ==
    IF ~file.exists THEN get_default_settings
    ELSE LET loaded == json_load(file.text)
         IN IF loaded.raised \/ loaded.value.type # "dict" THEN get_default_settings
            ELSE dict_update(get_default_settings, loaded.value, 1)

(* ----------------------------- Scheduler ------------------------------- *)

\* the most jobs registered, and the most loop threads started
MaxJobs == 2
MaxThreads == 2

(* --------------------------- the batch --------------------------------- *)

Operations == {"delete", "move", "compress"}

\* The size recorded in the i-th file record: distinct powers of two, so
\* that a sum of sizes names the set of files it was taken over.
RECURSIVE Pow2(_)
Pow2(n) == IF n = 0 THEN 1 ELSE 2 * Pow2(n - 1)

\* The i-th record of a batch: name and path are i.  has_keys is FALSE for
\* a record that lacks one of the keys 'name', 'path', 'size' which
\* process_file reads before its try block.
FileRecord(i, hk) == [name |-> i, path |-> i, size |-> Pow2(i - 1), has_keys |-> hk]

Batches(n) == {[i \in 1..n |-> FileRecord(i, hk[i])] : hk \in [1..n -> BOOLEAN]}

\* Error descriptions are <<text, path>>; the path is 0 where the text of
\* the code's message names no path.
NoError == <<"None", 0>>

\* BatchProcessor.process_file(file_info, operation) run against disk entry e:
\* the result dict it returns, or the exception it raises, and what it
\* leaves on disk.
process_file(file_info, op, e) ==
    IF ~file_info.has_keys
    THEN [raised |-> TRUE, exception |-> "KeyError", entry |-> e,
          result |-> [file |-> 0, size |-> 0, operation |-> op, success |-> FALSE, error |-> NoError]]
    ELSE LET result == [file |-> file_info.name, size |-> file_info.size,
                        operation |-> op, success |-> FALSE, error |-> NoError]
         IN IF op = "delete"
            THEN LET rm == os_remove(e)
                 IN IF rm.raised
                    THEN [raised |-> FALSE, exception |-> "", entry |-> rm.entry,
                          result |-> [result EXCEPT !.error = <<rm.error, file_info.path>>]]
                    ELSE [raised |-> FALSE, exception |-> "", entry |-> rm.entry,
                          result |-> [result EXCEPT !.success = TRUE]]
            ELSE [raised |-> FALSE, exception |-> "", entry |-> e, result |-> result]

\* int((processed / total_files) * 100) if total_files else 100.  The float
\* product truncates to the integer quotient for every total below 50 (the
\* first total where it does not is 50: 29/50 gives 57), which covers every
\* batch length of this model.
ProgressPercent(done, total) == IF total # 0 THEN (done * 100) \div total ELSE 100

\* datetime.now(), in days
Today == 41

\* the records as filter_files reads them: (datetime.now() -
\* file['modified']).days is their age
WithAge(files) ==
    [i \in DOMAIN files |->
        [name |-> files[i].name, path |-> files[i].path, size |-> files[i].size,
         modified |-> files[i].modified, extension |-> files[i].extension,
         age_days |-> Today - files[i].modified]]

\* the entry of the folder that a record was made from
EntryOf(folder, file) ==
    folder.entries[CHOOSE i \in DOMAIN folder.entries : folder.entries[i].filename = file.name]

NoCleanResult == [deleted |-> 0, space_freed |-> 0, errors |-> 0, total_scanned |-> 0]

\* the removal loop giving up at the first failure
RECURSIVE CleanLoop_StopsAtError(_, _, _, _, _)
CleanLoop_StopsAtError(folder, to_delete, i, callback, acc) ==
    IF i > Len(to_delete) THEN acc
    ELSE LET removed == EntryOf(folder, to_delete[i]).remove_ok
             emitted == IF callback
                        THEN Append(acc.emitted, ProgressPercent(i, Len(to_delete)))
                        ELSE acc.emitted
         IN IF removed
            THEN CleanLoop_StopsAtError(folder, to_delete, i + 1, callback,
                    [acc EXCEPT !.deleted = @ + 1, !.space_freed = @ + to_delete[i].size,
                                !.removed = @ \cup {to_delete[i].name},
                                !.emitted = emitted])
            ELSE [acc EXCEPT !.errors = @ + 1, !.emitted = emitted]

\* the loop of clean_files from the i-th file to delete on: os.remove
\* succeeds or raises, and the callback, if there is one, is given the
\* percentage
RECURSIVE CleanLoop(_, _, _, _, _)
CleanLoop(folder, to_delete, i, callback, acc) ==
    IF i > Len(to_delete) THEN acc
    ELSE LET removed == EntryOf(folder, to_delete[i]).remove_ok
             emitted == IF callback
                        THEN Append(acc.emitted, ProgressPercent(i, Len(to_delete)))
                        ELSE acc.emitted
         IN CleanLoop(folder, to_delete, i + 1, callback,
               IF removed
               THEN [acc EXCEPT !.deleted = @ + 1, !.space_freed = @ + to_delete[i].size,
                                !.removed = @ \cup {to_delete[i].name},
                                !.emitted = emitted]
               ELSE [acc EXCEPT !.errors = @ + 1, !.emitted = emitted])

\* FileCleaner.clean_files(rules, progress_callback): the scan it makes,
\* the summary it returns, the percentages it emits and the names of the
\* files it removes
clean_files(folder, total_size, rules, callback) ==
    LET scan == scan_files(folder, total_size)
        to_delete == filter_files(WithAge(scan.files), rules)
        done == CleanLoop(folder, to_delete, 1, callback,
                          [deleted |-> 0, space_freed |-> 0, errors |-> 0,
                           removed |-> {}, emitted |-> <<>>])
    IN [scan |-> scan,
        result |-> [deleted |-> done.deleted, space_freed |-> done.space_freed,
                    errors |-> done.errors, total_scanned |-> Len(scan.files)],
        emitted |-> done.emitted,
        removed |-> done.removed]

VARIABLES
    max_workers,     \* self.max_workers
    stop_requested,  \* self.stop_requested
    current_batch,   \* self.current_batch (files)
    operation,       \* the operation argument
    disk,            \* path -> what is there now
    disk0,           \* path -> what was there when process_batch was called
    pc,              \* where the process_batch call is
    submitted,       \* number of executor.submit calls made
    work_queue,      \* the executor's queue of work items not yet started
    future,          \* i -> "none" | "pending" | "running" | "finished"
    outcome,         \* i -> what process_file produced for the i-th file
    elapsed,         \* i -> time units the i-th operation ran
    finished,        \* as_completed: futures already done when it was entered
    pending,         \* as_completed: futures it still has to yield after those
    waiter_queue,    \* as_completed: completions delivered to its waiter, in order
    processed,       \* local processed
    results,         \* local results
    events,          \* signals emitted so far, in order
    returned         \* the value process_batch returned

vars == <<max_workers, stop_requested, current_batch, operation, disk, disk0, pc,
          submitted, work_queue, future, outcome, elapsed, finished, pending,
          waiter_queue, processed, results, events, returned>>

\* FileOperations.safe_delete(filepath, send_to_trash), one call
VARIABLES
    sd_entry,          \* what filepath named when safe_delete was called
    sd_now,            \* what filepath names now
    sd_send_to_trash,  \* the send_to_trash argument
    sd_trash_works,    \* whether send2trash is installed and succeeds
    sd_result          \* what safe_delete returned

guard_vars == <<sd_entry, sd_now, sd_send_to_trash, sd_trash_works, sd_result>>

\* RulesEngine, one call of evaluate_file or categorize_file
VARIABLES
    self_rules,   \* self.rules, as load_rules left it
    rl_file,      \* the file_info argument
    rl_call,      \* the method called
    rl_done,      \* whether the call is over
    rl_result,    \* what evaluate_file produced
    rl_category,  \* what categorize_file returned
    rl_errors     \* what validate_rules produced

rules_vars == <<self_rules, rl_file, rl_call, rl_done, rl_result, rl_category, rl_errors>>

\* FileCleaner, its folder, and one call of filter_files
VARIABLES
    cl_folder,      \* what self.folder_path names and the files below it
    cl_total_size,  \* self.total_size
    cl_scanned,     \* what the last scan_files call produced
    fl_files,       \* the files argument of filter_files
    fl_rules,       \* the rules argument of filter_files
    fl_done,        \* whether filter_files has returned
    fl_result       \* what filter_files returned

scan_vars == <<cl_folder, cl_total_size, cl_scanned>>
filter_vars == <<fl_files, fl_rules, fl_done, fl_result>>

\* one call of clean_files
VARIABLES
    cn_rules,     \* the rules argument
    cn_callback,  \* whether a progress_callback is given
    cn_done,      \* whether clean_files has returned
    cn_result,    \* the summary it returned
    cn_emitted    \* what progress_callback.emit was given, in order

clean_vars == <<cn_rules, cn_callback, cn_done, cn_result, cn_emitted>>
cleaner_vars == <<scan_vars, filter_vars, clean_vars>>

\* a SettingsManager, settings.json and a fresh SettingsManager that loads it
VARIABLES
    st_settings,  \* self.settings of the manager that saves
    st_file,      \* settings.json
    st_save,      \* how the save() call went
    st_loaded     \* self.settings of the fresh manager after load()

settings_vars == <<st_settings, st_file, st_save, st_loaded>>

\* the Scheduler objects of the process, their loop threads and the job
\* registry of the schedule module
VARIABLES
    sc_running,         \* s -> self.running
    sc_scheduled_jobs,  \* s -> self.scheduled_jobs
    sc_jobs,            \* schedule.jobs, the registry of the default scheduler
    sc_thread,          \* t -> the thread's owner and where in run_scheduler it is
    sc_next_job         \* the number of Job objects registered so far

sched_vars == <<sc_running, sc_scheduled_jobs, sc_jobs, sc_thread, sc_next_job>>

\* the objects beside the BatchProcessor
library_vars == <<guard_vars, rules_vars, cleaner_vars, settings_vars, sched_vars>>

all_vars == <<vars, library_vars>>

total_files == Len(current_batch)
Files == 1..total_files

EmptyResults == [success |-> 0, failed |-> 0, skipped |-> 0, total_size |-> 0, errors |-> <<>>]
NoOutcome == [raised |-> FALSE, exception |-> "", entry |-> Absent,
              result |-> [file |-> 0, size |-> 0, operation |-> "", success |-> FALSE, error |-> NoError]]
NotReturned == [success |-> -1, failed |-> -1, skipped |-> -1, total_size |-> -1, errors |-> <<>>]

\* BatchProcessor(max_workers); the files, operation and disk of the call
\* that is about to be made.
InitBatch(ns, workers, flags) ==
    /\ max_workers \in workers
    /\ stop_requested \in flags
    /\ \E n \in ns : current_batch \in Batches(n)
    /\ operation \in Operations
    /\ disk0 \in [1..Len(current_batch) -> DiskEntries]
    \* only a delete of a record that has its keys looks at the disk
    /\ \A i \in 1..Len(current_batch) :
          (operation # "delete" \/ ~current_batch[i].has_keys) => disk0[i] = Regular
    /\ disk = disk0
    /\ pc = "idle"
    /\ submitted = 0
    /\ work_queue = <<>>
    /\ future = [i \in 1..Len(current_batch) |-> "none"]
    /\ outcome = [i \in 1..Len(current_batch) |-> NoOutcome]
    /\ elapsed = [i \in 1..Len(current_batch) |-> 0]
    /\ finished = {}
    /\ pending = {}
    /\ waiter_queue = <<>>
    /\ processed = 0
    /\ results = EmptyResults
    /\ events = <<>>
    /\ returned = NotReturned

\* a BatchProcessor as __init__ leaves it: stop_requested = False
InitFor(ns, workers) == InitBatch(ns, workers, {FALSE})

\* no safe_delete call is in progress
NoGuardResult == [success |-> FALSE, message |-> "", checks |-> 0]
GuardIdle ==
    /\ sd_entry = Absent
    /\ sd_now = Absent
    /\ sd_send_to_trash = FALSE
    /\ sd_trash_works = FALSE
    /\ sd_result = NoGuardResult

\* a file record as the rules engine reads it
RulesFile(ext, path, mime) ==
    [age_days |-> 31, size |-> 2 * MiB, extension |-> ext, name |-> NameCacheUpper,
     path |-> path, mime_type |-> mime]

NoEvaluation == [raised |-> FALSE, decision |-> FALSE, score |-> 0, reasons |-> <<>>]
NoValidation == [raised |-> FALSE, errors |-> <<>>]

\* RulesEngine(): self.rules = {}
RulesIdle ==
    /\ self_rules = EmptyDict
    /\ rl_file = RulesFile("", PathPlain, "")
    /\ rl_call = "none"
    /\ rl_done = FALSE
    /\ rl_result = NoEvaluation
    /\ rl_category = ""
    /\ rl_errors = NoValidation

\* no scan_files call yet
NotScanned == [raised |-> FALSE, files |-> <<>>, total_size |-> 0, called |-> FALSE]

\* no filter_files call
FilterIdle ==
    /\ fl_files = <<>>
    /\ fl_rules = EmptyDict
    /\ fl_done = FALSE
    /\ fl_result = <<>>

\* FileCleaner(folder_path) on an empty folder: self.total_size = 0
ScanIdle ==
    /\ cl_folder = [kind |-> "directory", entries |-> <<>>]
    /\ cl_total_size = 0
    /\ cl_scanned = NotScanned

\* no clean_files call
CleanIdle ==
    /\ cn_rules = EmptyDict
    /\ cn_callback = FALSE
    /\ cn_done = FALSE
    /\ cn_result = NoCleanResult
    /\ cn_emitted = <<>>

CleanerIdle == ScanIdle /\ FilterIdle /\ CleanIdle

\* load() has not been called
NotLoaded == PyNone

\* SettingsManager(): self.settings = self.get_default_settings()
SettingsIdle ==
    /\ st_settings = get_default_settings
    /\ st_file = NoFile
    /\ st_save = "none"
    /\ st_loaded = NotLoaded

\* the Scheduler objects of the process
Schedulers == {"A", "B"}

\* a thread that was never started
NoThread == [owner |-> "", at |-> "none"]

\* Scheduler.__init__ for each object; no job registered, no thread started
SchedulerIdle ==
    /\ sc_running = [s \in Schedulers |-> FALSE]
    /\ sc_scheduled_jobs = [s \in Schedulers |-> <<>>]
    /\ sc_jobs = {}
    /\ sc_thread = [t \in 1..MaxThreads |-> NoThread]
    /\ sc_next_job = 0

\* the objects beside the BatchProcessor are not in use
LibraryIdle == GuardIdle /\ RulesIdle /\ CleanerIdle /\ SettingsIdle /\ SchedulerIdle

\* a BatchProcessor that is not in use
BatchIdle == InitFor({0}, {DefaultMaxWorkers}) /\ operation = "delete"

Init == InitFor(0..MaxFiles, 1..MaxWorkers) /\ LibraryIdle

(* ------------------------- process_batch ------------------------------- *)

\* self.stop_requested = False ... results = {...}
ProcessBatchStart_KeepsFlag ==
    /\ pc = "idle"
    /\ processed' = 0
    /\ results' = EmptyResults
    /\ pc' = "submit"
    /\ UNCHANGED <<max_workers, stop_requested, current_batch, operation, disk, disk0,
                   submitted, work_queue, future, outcome, elapsed, finished, pending,
                   waiter_queue, events, returned>>
    /\ UNCHANGED library_vars

ProcessBatchStart ==
    /\ pc = "idle"
    /\ stop_requested' = FALSE
    /\ processed' = 0
    /\ results' = EmptyResults
    /\ pc' = "submit"
    /\ UNCHANGED <<max_workers, current_batch, operation, disk, disk0, submitted,
                   work_queue, future, outcome, elapsed, finished, pending,
                   waiter_queue, events, returned>>
    /\ UNCHANGED library_vars

\* executor.submit(self.process_file, file, operation) for the next file
Submit ==
    /\ pc = "submit"
    /\ submitted < total_files
    /\ submitted' = submitted + 1
    /\ future' = [future EXCEPT ![submitted + 1] = "pending"]
    /\ work_queue' = Append(work_queue, submitted + 1)
    /\ UNCHANGED <<max_workers, stop_requested, current_batch, operation, disk, disk0,
                   pc, outcome, elapsed, finished, pending, waiter_queue, processed,
                   results, events, returned>>
    /\ UNCHANGED library_vars

\* as_completed(future_to_file) is entered: the futures already done are
\* yielded first, as a set; the others are waited for.
AsCompletedEnter ==
    /\ pc = "submit"
    /\ submitted = total_files
    /\ finished' = {i \in Files : future[i] = "finished"}
    /\ pending' = {i \in Files : future[i] # "finished"}
    /\ waiter_queue' = <<>>
    /\ pc' = "loop"
    /\ UNCHANGED <<max_workers, stop_requested, current_batch, operation, disk, disk0,
                   submitted, work_queue, future, outcome, elapsed, processed,
                   results, events, returned>>
    /\ UNCHANGED library_vars

\* The future as_completed yields next.
IsNextYield(i) ==
    IF finished # {} THEN i \in finished
    ELSE waiter_queue # <<>> /\ i = Head(waiter_queue)

\* future.result(timeout=30): the result or exception of a finished
\* future; TimeoutError for one that is not finished within the timeout.
FutureResult(i) ==
    IF future[i] = "finished" THEN outcome[i]
    ELSE [outcome[i] EXCEPT !.raised = TRUE, !.exception = "TimeoutError"]

\* a handler that catches only OS errors
Catches_OSErrorOnly(exception) == exception \in {"OSError"}

\* except Exception as e
Catches(exception) == exception \in {"KeyError", "TimeoutError"}

\* the failure branch appends the error but does not count the file
Aggregate_ForgetsFailure(res, fr) ==
    IF fr.raised
    THEN [res EXCEPT !.failed = @ + 1, !.errors = Append(@, <<fr.exception, 0>>)]
    ELSE IF fr.result.success
         THEN [res EXCEPT !.success = @ + 1, !.total_size = @ + fr.result.size]
         ELSE [res EXCEPT !.errors = Append(@, fr.result.error)]

\* total_size is assigned where it should be added to
Aggregate_OverwritesSize(res, fr) ==
    IF fr.raised
    THEN [res EXCEPT !.failed = @ + 1, !.errors = Append(@, <<fr.exception, 0>>)]
    ELSE IF fr.result.success
         THEN [res EXCEPT !.success = @ + 1, !.total_size = fr.result.size]
         ELSE [res EXCEPT !.failed = @ + 1, !.errors = Append(@, fr.result.error)]

\* a failure is counted but leaves no entry in errors
Aggregate_CountsWithoutEntry(res, fr) ==
    IF fr.raised
    THEN [res EXCEPT !.failed = @ + 1, !.errors = Append(@, <<fr.exception, 0>>)]
    ELSE IF fr.result.success
         THEN [res EXCEPT !.success = @ + 1, !.total_size = @ + fr.result.size]
         ELSE [res EXCEPT !.failed = @ + 1]

\* The body of the completion loop on one future result: results afterwards.
Aggregate(res, fr) ==
    IF fr.raised
    THEN [res EXCEPT !.failed = @ + 1, !.errors = Append(@, <<fr.exception, 0>>)]
    ELSE IF fr.result.success
         THEN [res EXCEPT !.success = @ + 1, !.total_size = @ + fr.result.size]
         ELSE [res EXCEPT !.failed = @ + 1, !.errors = Append(@, fr.result.error)]

\* The signals the loop body emits for one future result, done being the
\* value of processed after it.
LoopSignals(fr, file, done) ==
    IF fr.raised THEN <<>>
    ELSE << <<"progress", ProgressPercent(done, total_files), file.name>>,
            <<"file_processed", fr.result>> >>

\* the loop never looks at the flag
StopObserved_Never == FALSE

\* if self.stop_requested
StopObserved == stop_requested

\* One iteration of "for future in as_completed(...)" on future i.
LoopIteration(i) ==
    /\ pc = "loop"
    /\ IsNextYield(i)
    /\ finished' = finished \ {i}
    /\ pending' = pending \ {i}
    /\ waiter_queue' = IF finished # {} THEN waiter_queue ELSE Tail(waiter_queue)
    /\ IF StopObserved
       THEN /\ pc' = "exit_pool"
            /\ UNCHANGED <<processed, results, events>>
       ELSE LET fr == FutureResult(i)
            IN IF fr.raised /\ ~Catches(fr.exception)
               THEN /\ pc' = "raised"
                    /\ UNCHANGED <<processed, results, events>>
               ELSE /\ results' = Aggregate(results, fr)
                    /\ processed' = processed + 1
                    /\ events' = events \o LoopSignals(fr, current_batch[i], processed + 1)
                    /\ pc' = pc
    /\ UNCHANGED <<max_workers, stop_requested, current_batch, operation, disk, disk0,
                   submitted, work_queue, future, outcome, elapsed, returned>>
    /\ UNCHANGED library_vars

\* as_completed has yielded every future: the loop ends.
LoopEnd ==
    /\ pc = "loop"
    /\ finished = {}
    /\ pending = {}
    /\ pc' = "exit_pool"
    /\ UNCHANGED <<max_workers, stop_requested, current_batch, operation, disk, disk0,
                   submitted, work_queue, future, outcome, elapsed, finished, pending,
                   waiter_queue, processed, results, events, returned>>
    /\ UNCHANGED library_vars

\* the call waits until every outcome has been aggregated
ExitPoolReady_AllAggregated == processed = total_files

\* shutdown(wait=False): the pool is left at once
ExitPoolReady_NoWait == TRUE

\* Leaving "with ThreadPoolExecutor(...)": shutdown(wait=True) returns when
\* every submitted work item has run.
ExitPoolReady == \A i \in Files : future[i] = "finished"

ExitPool ==
    /\ pc = "exit_pool"
    /\ ExitPoolReady
    /\ pc' = "emit"
    /\ UNCHANGED <<max_workers, stop_requested, current_batch, operation, disk, disk0,
                   submitted, work_queue, future, outcome, elapsed, finished, pending,
                   waiter_queue, processed, results, events, returned>>
    /\ UNCHANGED library_vars

\* the call returns without emitting the summary
EmitAndReturn_Silent ==
    /\ pc = "emit"
    /\ returned' = results
    /\ pc' = "done"
    /\ UNCHANGED <<max_workers, stop_requested, current_batch, operation, disk, disk0,
                   submitted, work_queue, future, outcome, elapsed, finished, pending,
                   waiter_queue, processed, results, events>>
    /\ UNCHANGED library_vars

\* self.batch_complete.emit(results); return results
EmitAndReturn ==
    /\ pc = "emit"
    /\ events' = Append(events, <<"batch_complete", results>>)
    /\ returned' = results
    /\ pc' = "done"
    /\ UNCHANGED <<max_workers, stop_requested, current_batch, operation, disk, disk0,
                   submitted, work_queue, future, outcome, elapsed, finished, pending,
                   waiter_queue, processed, results>>
    /\ UNCHANGED library_vars

(* ------------------------ the worker pool ------------------------------ *)

\* one thread per file of the batch
PoolSize_PerFile == total_files

\* ThreadPoolExecutor(max_workers=self.max_workers)
PoolSize == max_workers

Running == {i \in Files : future[i] = "running"}

\* A pool thread takes the oldest work item off the queue.
WorkerStart ==
    /\ work_queue # <<>>
    /\ Cardinality(Running) < PoolSize
    /\ future' = [future EXCEPT ![Head(work_queue)] = "running"]
    /\ work_queue' = Tail(work_queue)
    /\ UNCHANGED <<max_workers, stop_requested, current_batch, operation, disk, disk0,
                   pc, submitted, outcome, elapsed, finished, pending, waiter_queue,
                   processed, results, events, returned>>
    /\ UNCHANGED library_vars

\* The time process_file spends on one file.
OperationTime(op, e) == IF op = "delete" THEN e.duration ELSE Regular.duration

\* A pool thread runs process_file(file, operation) to its end and sets
\* the future's result or exception, which wakes as_completed's waiter.
WorkerFinish(i) ==
    /\ future[i] = "running"
    /\ LET out == process_file(current_batch[i], operation, disk[current_batch[i].path])
       IN /\ outcome' = [outcome EXCEPT ![i] = out]
          /\ disk' = [disk EXCEPT ![current_batch[i].path] = out.entry]
    /\ elapsed' = [elapsed EXCEPT ![i] = OperationTime(operation, disk[current_batch[i].path])]
    /\ future' = [future EXCEPT ![i] = "finished"]
    /\ waiter_queue' = IF pc = "loop" /\ i \in pending
                       THEN Append(waiter_queue, i) ELSE waiter_queue
    /\ UNCHANGED <<max_workers, stop_requested, current_batch, operation, disk0, pc,
                   submitted, work_queue, finished, pending, processed, results,
                   events, returned>>
    /\ UNCHANGED library_vars

\* BatchProcessor.stop_processing, from any thread at any time
StopProcessing ==
    /\ stop_requested' = TRUE
    /\ UNCHANGED <<max_workers, current_batch, operation, disk, disk0, pc, submitted,
                   work_queue, future, outcome, elapsed, finished, pending,
                   waiter_queue, processed, results, events, returned>>
    /\ UNCHANGED library_vars

MainStep ==
    \/ ProcessBatchStart
    \/ Submit
    \/ AsCompletedEnter
    \/ \E i \in Files : LoopIteration(i)
    \/ LoopEnd
    \/ ExitPool
    \/ EmitAndReturn

WorkerStep ==
    \/ WorkerStart
    \/ \E i \in Files : WorkerFinish(i)

Next == MainStep \/ WorkerStep \/ StopProcessing

Spec == Init /\ [][Next]_vars

\* The threads run: a thread that can take a step eventually takes it.
FairSpec == Spec /\ WF_vars(MainStep) /\ WF_vars(WorkerStep)

(* ---------- the five-delete scenario of the specification -------------- *)

\* Five files on disk, the third one gone by the time the batch runs.
ScenarioDisk == <<Regular, Regular, Absent, Regular, Regular>>
\* None of the five is there any more.
ScenarioAllGone == [i \in DOMAIN ScenarioDisk |-> Absent]

InitScenario ==
    /\ InitFor({Len(ScenarioDisk)}, {DefaultMaxWorkers})
    /\ operation = "delete"
    /\ \A i \in DOMAIN ScenarioDisk : current_batch[i].has_keys
    /\ disk0 \in {ScenarioDisk, ScenarioAllGone}
    /\ LibraryIdle

SpecWithScenario == (Init \/ InitScenario) /\ [][Next]_vars

(* ------------- a batch after an earlier stop_processing call ----------- *)

\* stop_processing was called before this process_batch call: for an
\* earlier batch, or ahead of time
InitAfterStop == InitBatch(0..MaxFiles, 1..MaxWorkers, {TRUE}) /\ LibraryIdle

SpecAfterStop == InitAfterStop /\ [][Next]_all_vars

(* ------------------- FileOperations.safe_delete ----------------------- *)

GuardInit ==
    /\ BatchIdle
    /\ SchedulerIdle
    /\ SettingsIdle
    /\ sd_entry \in GuardEntries
    /\ sd_now = sd_entry
    /\ sd_send_to_trash \in BOOLEAN
    /\ sd_trash_works \in BOOLEAN
    /\ sd_result = NoGuardResult
    /\ RulesIdle
    /\ CleanerIdle

\* safe_delete(filepath, send_to_trash) is called and returns
SafeDeleteCall ==
    /\ LET r == safe_delete(sd_now, sd_send_to_trash, sd_trash_works)
       IN /\ sd_result' = [success |-> r.success, message |-> r.message, checks |-> r.checks]
          /\ sd_now' = r.entry
    /\ sd_entry' = sd_now
    /\ UNCHANGED <<sd_send_to_trash, sd_trash_works>>
    /\ UNCHANGED <<vars, rules_vars, cleaner_vars, settings_vars, sched_vars>>

GuardNext == SafeDeleteCall

GuardSpec == GuardInit /\ [][GuardNext]_all_vars

(* ------------------ RulesEngine.evaluate_file -------------------------- *)

\* the dicts with at most the key k, its value drawn from values
Optional(k, values) == {EmptyDict} \cup {k :> v : v \in values}

\* the lists of at most n elements of S
RECURSIVE ListsUpTo(_, _)
ListsUpTo(S, n) ==
    IF n = 0 THEN {<<>>}
    ELSE LET shorter == ListsUpTo(S, n - 1)
         IN shorter \cup {Append(l, x) : l \in shorter, x \in S}

FolderDocs == <<"d">>
FolderSys == <<"s">>

\* the rule configurations load_rules is given
RuleConfigs ==
    {a @@ b @@ c @@ d @@ e @@ f :
        a \in Optional("max_age_days", {30, 31}),
        b \in Optional("min_size_mb", {1, 2}),
        c \in Optional("delete_extensions", ListsUpTo({PatTmp, PatAnyExt}, MaxPatterns)),
        d \in Optional("name_patterns", ListsUpTo({PatCache, PatNotes, PatBad}, MaxPatterns)),
        e \in Optional("excluded_folders", ListsUpTo({FolderDocs, FolderSys}, MaxPatterns)),
        f \in Optional("categories", {"temporary" :> TRUE, "temporary" :> FALSE})}

\* every additive rule fires and one protected folder matches: the file
\* named by five name patterns, and by four
TwelvePointPatterns == <<PatAnyName, PatAnyName, PatAnyName, PatCache, PatCache>>
TwelvePointConfigs ==
    {[max_age_days |-> 30, min_size_mb |-> 1, delete_extensions |-> <<PatTmp>>,
      name_patterns |-> p, excluded_folders |-> <<FolderDocs>>,
      categories |-> ("temporary" :> TRUE)] :
        p \in {TwelvePointPatterns, Tail(TwelvePointPatterns)}}

EvaluateInit ==
    /\ rl_call = "evaluate_file"
    /\ self_rules \in RuleConfigs \cup TwelvePointConfigs
    /\ \E ext \in {".tmp", ".jpg"}, path \in {PathPlain, PathDocsSys} :
          rl_file = RulesFile(ext, path, "")

CategorizeInit ==
    /\ rl_call = "categorize_file"
    /\ self_rules = EmptyDict
    /\ \E ext \in {".jpg", ".txt", ".mp4", ".mp3", ".zip", ".tmp", ".TMP", ".log", ""},
          mime \in {"", "image/png", "text/plain", "video/mp4", "audio/mpeg", "application/zip"} :
          rl_file = RulesFile(ext, PathPlain, mime)

\* the values a threshold field may hold
ThresholdValues ==
    {PyInt(-1), PyInt(0), PyInt(30), PyFloat(-1), PyFloat(0), PyFloat(2), PyBool(TRUE),
     PyStr, PyNone}

\* the configurations validate_rules is asked about
ValidateConfigs ==
    {a @@ b @@ c :
        a \in Optional("max_age_days", ThresholdValues),
        b \in Optional("min_size_mb", ThresholdValues),
        c \in Optional("name_patterns", ListsUpTo({PatBad}, MaxPatterns))}

ValidateInit ==
    /\ rl_call = "validate_rules"
    /\ self_rules \in ValidateConfigs
    /\ rl_file = RulesFile("", PathPlain, "")

RulesInit ==
    /\ BatchIdle
    /\ SchedulerIdle
    /\ SettingsIdle
    /\ GuardIdle
    /\ CleanerIdle
    /\ EvaluateInit \/ CategorizeInit \/ ValidateInit
    /\ rl_done = FALSE
    /\ rl_result = NoEvaluation
    /\ rl_category = ""
    /\ rl_errors = NoValidation

\* evaluate_file(file_info) is called and returns or raises
EvaluateFile ==
    /\ rl_call = "evaluate_file" /\ ~rl_done
    /\ rl_result' = evaluate_file(self_rules, rl_file)
    /\ rl_done' = TRUE
    /\ UNCHANGED <<self_rules, rl_file, rl_call, rl_category, rl_errors>>
    /\ UNCHANGED <<vars, guard_vars, cleaner_vars, settings_vars, sched_vars>>

\* categorize_file(file_info) is called and returns
CategorizeFile ==
    /\ rl_call = "categorize_file" /\ ~rl_done
    /\ rl_category' = categorize_file(rl_file)
    /\ rl_done' = TRUE
    /\ UNCHANGED <<self_rules, rl_file, rl_call, rl_result, rl_errors>>
    /\ UNCHANGED <<vars, guard_vars, cleaner_vars, settings_vars, sched_vars>>

\* validate_rules() is called and returns
ValidateRules ==
    /\ rl_call = "validate_rules" /\ ~rl_done
    /\ rl_errors' = validate_rules(self_rules)
    /\ rl_done' = TRUE
    /\ UNCHANGED <<self_rules, rl_file, rl_call, rl_result, rl_category>>
    /\ UNCHANGED <<vars, guard_vars, cleaner_vars, settings_vars, sched_vars>>

RulesNext == EvaluateFile \/ CategorizeFile \/ ValidateRules

RulesSpec == RulesInit /\ [][RulesNext]_all_vars

(* --------------------- FileCleaner.scan_files -------------------------- *)

\* the files a folder may hold: os.stat succeeds on a file or raises
ScanEntries ==
    [filename : {NameATmpUpper, NameBLog, NameNotes}, st_size : {1, 2}, st_mtime : {1},
     stat_ok : BOOLEAN]

\* a folder, its files named apart, or a path that is no folder
Folders ==
    {[kind |-> "directory", entries |-> es] :
        es \in {l \in ListsUpTo(ScanEntries, MaxEntries) :
                  \A i, j \in DOMAIN l : l[i].filename = l[j].filename => i = j}}
    \cup {[kind |-> k, entries |-> <<>>] : k \in FolderKinds \ {"directory"}}

ScanInit ==
    /\ BatchIdle
    /\ SchedulerIdle
    /\ SettingsIdle
    /\ GuardIdle
    /\ RulesIdle
    /\ FilterIdle
    /\ CleanIdle
    /\ cl_folder \in Folders
    /\ cl_total_size = 0
    /\ cl_scanned = NotScanned

\* scan_files() is called and returns
ScanFiles ==
    /\ LET r == scan_files(cl_folder, cl_total_size)
       IN /\ cl_scanned' = [raised |-> r.raised, files |-> r.files,
                            total_size |-> r.total_size, called |-> TRUE]
          /\ cl_total_size' = r.total_size
    /\ UNCHANGED <<cl_folder, filter_vars, clean_vars, vars, guard_vars, rules_vars, settings_vars, sched_vars>>

\* between two scans the folder changes: a file appears in it, a file
\* goes, or the empty folder is removed, replaced by a file or made anew
FolderChanges ==
    /\ cl_scanned.called
    /\ \/ /\ cl_folder.kind = "directory"
          /\ Len(cl_folder.entries) < MaxEntries
          /\ \E en \in ScanEntries :
                /\ \A i \in DOMAIN cl_folder.entries : cl_folder.entries[i].filename # en.filename
                /\ cl_folder' = [cl_folder EXCEPT !.entries = Append(@, en)]
       \/ /\ cl_folder.entries # <<>>
          /\ cl_folder' = [cl_folder EXCEPT !.entries = SubSeq(@, 1, Len(@) - 1)]
       \/ /\ cl_folder.entries = <<>>
          /\ \E k \in FolderKinds \ {cl_folder.kind} : cl_folder' = [kind |-> k, entries |-> <<>>]
    /\ UNCHANGED <<cl_total_size, cl_scanned, filter_vars, clean_vars, vars, guard_vars, rules_vars, settings_vars, sched_vars>>

ScanNext == ScanFiles \/ FolderChanges

ScanSpec == ScanInit /\ [][ScanNext]_all_vars

(* --------------------- FileCleaner.filter_files ------------------------ *)

\* file records as filter_files reads them
FileATmp == [name |-> NameATmp, extension |-> ExtTmp, size |-> 2048, age_days |-> 45]
FileBLog == [name |-> NameBLog, extension |-> ExtLog, size |-> 512000, age_days |-> 2]
FileNotesTxt ==
    [name |-> NameNotesTxt, extension |-> <<".", "t", "x", "t">>, size |-> 10 * MiB,
     age_days |-> 1]
FileCacheDat == [name |-> NameCacheDat, extension |-> ExtDat, size |-> 1, age_days |-> 0]
FileOldBak ==
    [name |-> NameOldBak, extension |-> <<".", "b", "a", "k">>, size |-> MiB, age_days |-> 30]
FileTTemp == [name |-> NameTTemp, extension |-> ExtTemp, size |-> 0, age_days |-> 0]

FilterRecords == {FileATmp, FileBLog, FileNotesTxt, FileCacheDat, FileOldBak, FileTTemp}

\* the rule configurations filter_files is given
FilterConfigs ==
    {a @@ b @@ c @@ d @@ e @@ f :
        a \in Optional("delete_tmp", BOOLEAN),
        b \in Optional("delete_log", BOOLEAN),
        c \in Optional("delete_cache", BOOLEAN),
        d \in Optional("custom_extensions", {<<>>, <<ExtDat>>}),
        e \in Optional("file_age_days", {30, 45}),
        f \in Optional("min_size_mb", {1, 10})}

\* the folder and the configuration of the end-to-end scenario
ScenarioFiles == <<FileATmp, FileBLog, FileNotesTxt>>
ScenarioRules == [delete_tmp |-> TRUE, file_age_days |-> 30, min_size_mb |-> 1]

FilterInit ==
    /\ BatchIdle
    /\ SchedulerIdle
    /\ SettingsIdle
    /\ GuardIdle
    /\ RulesIdle
    /\ ScanIdle
    /\ CleanIdle
    /\ \/ fl_files \in ListsUpTo(FilterRecords, MaxRecords) /\ fl_rules \in FilterConfigs
       \/ fl_files = ScenarioFiles /\ fl_rules = ScenarioRules
    /\ fl_done = FALSE
    /\ fl_result = <<>>

\* filter_files(files, rules) is called and returns
FilterFiles ==
    /\ ~fl_done
    /\ fl_result' = filter_files(fl_files, fl_rules)
    /\ fl_done' = TRUE
    /\ UNCHANGED <<fl_files, fl_rules, scan_vars, clean_vars, vars, guard_vars, rules_vars, settings_vars, sched_vars>>

FilterNext == FilterFiles

FilterSpec == FilterInit /\ [][FilterNext]_all_vars

(* -------------------- SettingsManager save and load -------------------- *)

\* the items a dict may hold under one key: none, or the key with one of
\* the values
OptionalItem(key, values) == {<<>>} \cup {<< <<key, x>> >> : x \in values}

\* the 'rules' values the application sets
RulesValues ==
    {PyDict(a \o b \o c \o d) :
        a \in OptionalItem(KeyDeleteTmp, {PyBool(TRUE), PyBool(FALSE)}),
        b \in OptionalItem(KeyFileAgeDays, {PyInt(30), PyInt(-1)}),
        c \in OptionalItem(KeyMinSizeMb, {PyInt(1), PyFloat(2)}),
        d \in OptionalItem(KeyCustomExtensions,
                 {PyList(l) : l \in ListsUpTo({PyString(StrBak), PyString(StrQuoted),
                                               PyList(<<PyInt(0)>>)}, MaxExtensions)})}

SettingsInit ==
    /\ BatchIdle
    /\ SchedulerIdle
    /\ GuardIdle
    /\ RulesIdle
    /\ CleanerIdle
    /\ st_settings = get_default_settings
    /\ st_file \in {NoFile, FileOf(json_dump(get_default_settings, 0))}
    /\ st_save = "none"
    /\ st_loaded = NotLoaded

\* set('rules', value)
SetRules ==
    /\ st_save = "none"
    /\ \E x \in RulesValues : st_settings' = dict_set(st_settings, KeyRules, x)
    /\ UNCHANGED <<st_file, st_save, st_loaded>>
    /\ UNCHANGED <<vars, guard_vars, rules_vars, cleaner_vars, sched_vars>>

\* save() writes the file
Save ==
    /\ st_save = "none"
    /\ st_file' = FileOf(json_dump(st_settings, 0))
    /\ st_save' = "written"
    /\ UNCHANGED <<st_settings, st_loaded>>
    /\ UNCHANGED <<vars, guard_vars, rules_vars, cleaner_vars, sched_vars>>

\* save() catches an exception: open() raised and the file is as it was,
\* or a write raised and the file is cut short
SaveFails ==
    /\ st_save = "none"
    /\ LET text == json_dump(st_settings, 0)
       IN \/ st_file' = st_file
          \/ \E n \in {0, Len(text) \div 2} : st_file' = FileOf(SubSeq(text, 1, n))
    /\ st_save' = "failed"
    /\ UNCHANGED <<st_settings, st_loaded>>
    /\ UNCHANGED <<vars, guard_vars, rules_vars, cleaner_vars, sched_vars>>

\* a fresh SettingsManager calls load()
Load ==
    /\ st_save # "none"
    /\ st_loaded = NotLoaded
    /\ st_loaded' = load(st_file)
    /\ UNCHANGED <<st_settings, st_file, st_save>>
    /\ UNCHANGED <<vars, guard_vars, rules_vars, cleaner_vars, sched_vars>>

SettingsNext == SetRules \/ Save \/ SaveFails \/ Load

SettingsSpec == SettingsInit /\ [][SettingsNext]_all_vars

(* --------------------- FileCleaner.clean_files ------------------------- *)

\* the files of a folder to clean: modified long ago or yesterday, and
\* os.remove succeeds on them or raises
CleanEntries ==
    [filename : {NameATmpUpper, NameBLog, NameNotes}, st_size : {1, 2}, st_mtime : {1, 40},
     stat_ok : BOOLEAN, remove_ok : BOOLEAN]

CleanFolders ==
    {[kind |-> "directory", entries |-> es] :
        es \in {l \in ListsUpTo(CleanEntries, MaxEntries) :
                  \A i, j \in DOMAIN l : l[i].filename = l[j].filename => i = j}}
    \cup {[kind |-> "missing", entries |-> <<>>]}

\* the rules clean_files is given
CleanRules ==
    {EmptyDict, [delete_tmp |-> FALSE, delete_log |-> TRUE],
     [delete_tmp |-> FALSE, file_age_days |-> 40]}

CleanInit ==
    /\ BatchIdle
    /\ SchedulerIdle
    /\ SettingsIdle
    /\ GuardIdle
    /\ RulesIdle
    /\ FilterIdle
    /\ cl_folder \in CleanFolders
    /\ cl_total_size = 0
    /\ cl_scanned = NotScanned
    /\ cn_rules \in CleanRules
    /\ cn_callback \in BOOLEAN
    /\ cn_done = FALSE
    /\ cn_result = NoCleanResult
    /\ cn_emitted = <<>>

\* clean_files(rules, progress_callback) is called and returns
CleanFiles ==
    /\ ~cn_done
    /\ LET r == clean_files(cl_folder, cl_total_size, cn_rules, cn_callback)
       IN /\ cl_scanned' = [raised |-> r.scan.raised, files |-> r.scan.files,
                            total_size |-> r.scan.total_size, called |-> TRUE]
          /\ cl_total_size' = r.scan.total_size
          /\ cl_folder' = [cl_folder EXCEPT
                !.entries = SelectSeq(@, LAMBDA en : en.filename \notin r.removed)]
          /\ cn_result' = r.result
          /\ cn_emitted' = r.emitted
    /\ cn_done' = TRUE
    /\ UNCHANGED <<cn_rules, cn_callback, filter_vars, vars, guard_vars, rules_vars, settings_vars, sched_vars>>

CleanNext == CleanFiles

CleanSpec == CleanInit /\ [][CleanNext]_all_vars

(* ----------------------------- Scheduler ------------------------------- *)

\* the day arguments of schedule_weekly_cleanup
Days == {"monday", "Sunday", "someday"}
day_methods ==
    {"monday", "tuesday", "wednesday", "thursday", "friday", "saturday", "sunday"}

\* day.lower()
LowerDay(day) == IF day = "Sunday" THEN "sunday" ELSE day

\* the Job object that .do(job) registers: its closure holds the Scheduler
\* it was made for
Job(n, s, type) == [n |-> n, owner |-> s, type |-> type]

\* the descriptors without those of job_id
RemoveJob(descriptors, job_id) == SelectSeq(descriptors, LAMBDA d : d.id # job_id)

\* the Job objects handed out to s so far, registered still or not
JobsIssuedTo(s) == {Job(n, s, type) : n \in 1..sc_next_job, type \in {"daily", "weekly"}}

SchedulerInit ==
    /\ BatchIdle
    /\ GuardIdle
    /\ RulesIdle
    /\ CleanerIdle
    /\ SettingsIdle
    /\ SchedulerIdle

\* s.schedule_daily_cleanup(time_str, folder_path, rules)
ScheduleDailyCleanup(s) ==
    /\ sc_next_job < MaxJobs
    /\ LET job_id == Job(sc_next_job + 1, s, "daily")
       IN /\ sc_jobs' = sc_jobs \cup {job_id}
          /\ sc_scheduled_jobs' =
                [sc_scheduled_jobs EXCEPT ![s] = Append(@, [id |-> job_id, type |-> "daily"])]
    /\ sc_next_job' = sc_next_job + 1
    /\ UNCHANGED <<sc_running, sc_thread>>
    /\ UNCHANGED <<vars, guard_vars, rules_vars, cleaner_vars, settings_vars>>

\* s.schedule_weekly_cleanup(day, time_str, folder_path, rules)
ScheduleWeeklyCleanup(s) ==
    /\ sc_next_job < MaxJobs
    /\ \E day \in Days :
          IF LowerDay(day) \in day_methods
          THEN LET job_id == Job(sc_next_job + 1, s, "weekly")
               IN /\ sc_jobs' = sc_jobs \cup {job_id}
                  /\ sc_scheduled_jobs' =
                        [sc_scheduled_jobs EXCEPT
                            ![s] = Append(@, [id |-> job_id, type |-> "weekly"])]
                  /\ sc_next_job' = sc_next_job + 1
          ELSE UNCHANGED <<sc_jobs, sc_scheduled_jobs, sc_next_job>>
    /\ UNCHANGED <<sc_running, sc_thread>>
    /\ UNCHANGED <<vars, guard_vars, rules_vars, cleaner_vars, settings_vars>>

\* s.start(): nothing while running; else a new thread is started on
\* run_scheduler
Start(s) ==
    /\ IF sc_running[s]
       THEN UNCHANGED <<sc_running, sc_thread>>
       ELSE /\ \E t \in 1..MaxThreads : sc_thread[t] = NoThread
            /\ LET t == CHOOSE u \in 1..MaxThreads :
                           sc_thread[u] = NoThread /\ \A w \in 1..(u - 1) : sc_thread[w] # NoThread
               IN sc_thread' = [sc_thread EXCEPT ![t] = [owner |-> s, at |-> "while"]]
            /\ sc_running' = [sc_running EXCEPT ![s] = TRUE]
    /\ UNCHANGED <<sc_scheduled_jobs, sc_jobs, sc_next_job>>
    /\ UNCHANGED <<vars, guard_vars, rules_vars, cleaner_vars, settings_vars>>

\* s.stop(): schedule.clear() empties the registry of the process
Stop(s) ==
    /\ sc_running' = [sc_running EXCEPT ![s] = FALSE]
    /\ sc_jobs' = {}
    /\ sc_scheduled_jobs' = [sc_scheduled_jobs EXCEPT ![s] = <<>>]
    /\ UNCHANGED <<sc_thread, sc_next_job>>
    /\ UNCHANGED <<vars, guard_vars, rules_vars, cleaner_vars, settings_vars>>

\* s.cancel_job(job_id), job_id taken from a descriptor s once returned
CancelJob(s) ==
    /\ \E job_id \in JobsIssuedTo(s) :
          /\ sc_jobs' = sc_jobs \ {job_id}
          /\ sc_scheduled_jobs' =
                [sc_scheduled_jobs EXCEPT ![s] = RemoveJob(@, job_id)]
    /\ UNCHANGED <<sc_running, sc_thread, sc_next_job>>
    /\ UNCHANGED <<vars, guard_vars, rules_vars, cleaner_vars, settings_vars>>

\* run_scheduler, thread t: while self.running
LoopTest(t) ==
    /\ sc_thread[t].at = "while"
    /\ sc_thread' = [sc_thread EXCEPT
          ![t].at = IF sc_running[sc_thread[t].owner] THEN "sleep" ELSE "exited"]
    /\ UNCHANGED <<sc_running, sc_scheduled_jobs, sc_jobs, sc_next_job>>
    /\ UNCHANGED <<vars, guard_vars, rules_vars, cleaner_vars, settings_vars>>

\* run_scheduler, thread t: schedule.run_pending() and time.sleep(1) are over
LoopSleep(t) ==
    /\ sc_thread[t].at = "sleep"
    /\ sc_thread' = [sc_thread EXCEPT ![t].at = "while"]
    /\ UNCHANGED <<sc_running, sc_scheduled_jobs, sc_jobs, sc_next_job>>
    /\ UNCHANGED <<vars, guard_vars, rules_vars, cleaner_vars, settings_vars>>

SchedulerNext ==
    \/ \E s \in Schedulers :
          \/ ScheduleDailyCleanup(s)
          \/ ScheduleWeeklyCleanup(s)
          \/ Start(s)
          \/ Stop(s)
          \/ CancelJob(s)
    \/ \E t \in 1..MaxThreads : LoopTest(t) \/ LoopSleep(t)

SchedulerSpec == SchedulerInit /\ [][SchedulerNext]_all_vars

(* ------------------------ shared vocabulary ---------------------------- *)

RECURSIVE SumOver(_, _)
SumOver(S, f) == IF S = {} THEN 0
                 ELSE LET x == CHOOSE y \in S : TRUE IN f[x] + SumOver(S \ {x}, f)

Ran(i) == future[i] = "finished"
Succeeded(i) == Ran(i) /\ ~outcome[i].raised /\ outcome[i].result.success
Failed(i) == Ran(i) /\ ~Succeeded(i)
ErrorOf(i) == IF outcome[i].raised THEN <<outcome[i].exception, 0>> ELSE outcome[i].result.error
SizeOf == [i \in Files |-> current_batch[i].size]
InErrors(e) == \E k \in 1..Len(results.errors) : results.errors[k] = e
Started == {i \in Files : future[i] \in {"running", "finished"}}
SignalsNamed(sig) == SelectSeq(events, LAMBDA e : e[1] = sig)
Returned == pc = "done"
\* no stop_processing call since process_batch cleared the flag
NotStopped == ~stop_requested

(* ------------------------------ C1 ------------------------------------- *)

SummaryAccountsForAll ==
    /\ results.success + results.failed + results.skipped = total_files
    /\ results.total_size = SumOver({i \in Files : Succeeded(i)}, SizeOf)

\* C1 as stated: whenever process_batch has returned, success + failed +
\* skipped is the number of files of the batch and total_size is the sum of
\* the sizes of the files whose outcome was a success -- also for a batch
\* during which stop_processing was called.
C1_Original == Returned => SummaryAccountsForAll

\* C1 amended: when process_batch has returned and stop_processing was not
\* called since the flag was cleared at its start, success + failed +
\* skipped is the number of files of the batch and total_size is the sum of
\* the sizes of the files whose outcome was a success.
C1_Amended == Returned /\ NotStopped => SummaryAccountsForAll

\* an unstopped batch with a success and a failure has returned
C1_Witness ==
    /\ Returned /\ NotStopped
    /\ results.success >= 1 /\ results.failed >= 1

(* ------------------------------ C2 ------------------------------------- *)

\* C2: a per-file failure never aborts the batch.  No exception leaves
\* process_batch; when it has returned, process_file has run for every file;
\* and unless a stop was requested every failing file is counted in failed
\* and its error description is in errors.  Five deletes of which only the
\* third file is missing give success = 4, failed = 1 and the error names
\* the missing path as not existing; five deletes of missing files give
\* failed = 5.
C2_FailureNeverAborts ==
    /\ pc # "raised"
    /\ Returned => \A i \in Files : Ran(i)
    /\ Returned /\ NotStopped =>
          /\ results.failed = Cardinality({i \in Files : Failed(i)})
          /\ Len(results.errors) = results.failed
          /\ \A i \in Files : Failed(i) => InErrors(ErrorOf(i))
          /\ disk0 = ScenarioDisk =>
                /\ results.success = Len(ScenarioDisk) - 1
                /\ results.failed = 1
                /\ results.errors = << <<"No such file or directory", 3>> >>
          /\ disk0 = ScenarioAllGone =>
                /\ results.success = 0
                /\ results.failed = Len(ScenarioDisk)

\* the five-delete batch with the third file missing has returned
C2_Witness ==
    /\ Returned /\ NotStopped
    /\ disk0 = ScenarioDisk
    /\ results.failed = 1

(* ------------------------------ C3 ------------------------------------- *)

\* C3 as stated: in a delete batch nothing is removed from disk unless the
\* delete guard allows it.
C3_GuardBeforeRemoval ==
    [][\A p \in DOMAIN disk :
          (disk[p].kind # "none" /\ disk'[p].kind = "none")
             => safe_delete_check(disk[p]).allowed]_vars

(* ------------------------------ C4 ------------------------------------- *)

\* C4: cancellation is cooperative.  A loop iteration that finds the stop
\* flag set aggregates nothing and leaves the loop, with no more outcomes
\* aggregated than operations had been dispatched to workers by then; and
\* once the loop is left the summary does not change any more.
C4_StopFreezesSummary ==
    [][/\ (pc = "loop" /\ stop_requested) =>
             /\ results' = results /\ processed' = processed
             /\ pc' # "loop" => processed <= Cardinality(Started)
       /\ pc \in {"exit_pool", "emit", "done"} =>
             results' = results /\ processed' = processed]_vars

\* a batch cut short by the stop flag after at least one outcome was
\* aggregated has returned
C4_Witness ==
    /\ Returned /\ stop_requested
    /\ 1 <= processed /\ processed < total_files

(* ------------------------------ C5 ------------------------------------- *)

\* C5: once stop_processing has been called during a batch, process_batch
\* eventually returns its summary, batch_complete being the last signal.
C5_StopStillReturns ==
    (stop_requested /\ pc \in {"submit", "loop", "exit_pool", "emit"})
       ~> (Returned /\ returned = results
           /\ events # <<>> /\ events[Len(events)] = <<"batch_complete", results>>)

\* a batch stopped before anything was aggregated has returned
C5_Witness ==
    /\ Returned /\ stop_requested
    /\ total_files > 0 /\ processed = 0
    /\ returned = results

(* ------------------------------ C6 ------------------------------------- *)

\* C6 as stated: when an unstopped batch has returned, a file operation
\* that ran longer than the timeout has left a timeout error in the summary
\* and is not counted as a success.
C6_SlowCountsAsTimeout ==
    Returned /\ NotStopped =>
       \A i \in Files : elapsed[i] > ResultTimeout =>
          /\ InErrors(<<"TimeoutError", 0>>)
          /\ results.success <= Cardinality({j \in Files : Succeeded(j) /\ j # i})

(* ------------------------------ C7 ------------------------------------- *)

\* C7: at no moment do more than max_workers process_file calls execute.
C7_BoundedConcurrency == Cardinality(Running) <= max_workers

\* the pool is full while work is still queued
C7_Witness ==
    /\ Cardinality(Running) = max_workers
    /\ work_queue # <<>>

(* ------------------------------ C8 ------------------------------------- *)

\* C8 as stated: every completion the loop has taken in -- success, failure
\* result or raised exception -- was followed by a progress signal, the k-th
\* of them carrying floor(100 * k / total).
C8_ProgressAfterEveryCompletion ==
    LET prog == SignalsNamed("progress")
    IN /\ Len(prog) = processed
       /\ \A k \in 1..Len(prog) : prog[k][2] = (100 * k) \div total_files

(* ------------------------------ C9 ------------------------------------- *)

\* The summary of running the batch one file after the other, in
\* submission order, on the disk as it was when process_batch was called.
RECURSIVE SequentialSummary(_)
SequentialSummary(n) ==
    IF n = 0 THEN EmptyResults
    ELSE Aggregate(SequentialSummary(n - 1),
                   process_file(current_batch[n], operation, disk0[current_batch[n].path]))

\* C9: the counts and the byte total of an unstopped batch do not depend on
\* the completion order: they are those of the sequential run.
C9_OrderIndependent ==
    Returned /\ NotStopped =>
       LET seq == SequentialSummary(total_files)
       IN /\ results.success = seq.success
          /\ results.failed = seq.failed
          /\ results.skipped = seq.skipped
          /\ results.total_size = seq.total_size

\* an unstopped batch whose outcomes were aggregated in another order than
\* the files were submitted has returned
C9_Witness ==
    /\ Returned /\ NotStopped
    /\ results.errors # SequentialSummary(total_files).errors

(* ------------------------------ C10 ------------------------------------ *)

\* C10: batch_complete is emitted exactly once per call, when the call
\* returns; it is the last signal of the batch and carries the summary
\* the call returns.
C10_OneTerminalSummary ==
    /\ ~Returned => Len(SignalsNamed("batch_complete")) = 0
    /\ Returned =>
          /\ Len(SignalsNamed("batch_complete")) = 1
          /\ events[Len(events)] = <<"batch_complete", returned>>
          /\ returned = results

\* a batch that emitted per-file signals has returned
C10_Witness ==
    /\ Returned
    /\ Len(SignalsNamed("file_processed")) >= 2
    /\ Len(SignalsNamed("progress")) >= 2

(* ------------------------------ C11 ------------------------------------ *)

GuardCalled == sd_result # NoGuardResult

\* the five conditions of the guard on what the path named at the call, in
\* the order existence, symlink, home directory, extension, size
GuardPasses ==
    << path_exists(sd_entry),
       ~is_symlink(sd_entry),
       ~sd_entry.is_home,
       LowerSuffix(sd_entry.suffix) \notin safe_extensions,
       sd_entry.st_size <= MaxDeleteSize >>

GuardRejections ==
    << "File does not exist", "Cannot delete symbolic links", "Cannot delete home directory",
       "Unsafe extension: " \o sd_entry.suffix, "Large file detected" >>

\* the first condition that does not hold, 0 when all hold
FirstFailing ==
    IF \A k \in DOMAIN GuardPasses : GuardPasses[k] THEN 0
    ELSE CHOOSE k \in DOMAIN GuardPasses :
            ~GuardPasses[k] /\ \A j \in 1..(k - 1) : GuardPasses[j]

\* C11: safe_delete returns the rejection of the first of the five checks
\* (existence, symlink, home directory, protected extension, size ceiling)
\* that fails, having evaluated no later check; it removes the file only if
\* all five pass; a file of exactly 100 MiB passes the size check and a
\* larger one does not.
C11_ChecksInOrder ==
    GuardCalled =>
       /\ FirstFailing # 0 =>
             /\ ~sd_result.success
             /\ sd_result.message = GuardRejections[FirstFailing]
             /\ sd_result.checks = FirstFailing
             /\ sd_now = sd_entry
       /\ FirstFailing = 0 =>
             /\ \A k \in DOMAIN GuardRejections : sd_result.message # GuardRejections[k]
             /\ sd_result.success <=> (sd_now = Absent /\ sd_entry # Absent)
       /\ sd_now # sd_entry => FirstFailing = 0
       /\ (sd_entry.st_size > MaxDeleteSize /\ \A k \in 1..4 : GuardPasses[k])
             => sd_result.message = "Large file detected"

\* a file of exactly the ceiling size was deleted
C11_Witness ==
    /\ GuardCalled
    /\ sd_entry.kind = "file" /\ sd_entry.st_size = MaxDeleteSize
    /\ sd_result.success /\ sd_now = Absent

(* ------------------------------ C12 ------------------------------------ *)

\* C12 as stated: for every symbolic link, whatever its target, safe_delete
\* returns (False, "Cannot delete symbolic links") and removes nothing; for
\* a .py file it returns (False, "Unsafe extension: .py"); for the home
\* directory and for a file above 100 MiB it returns False.
C12_GuardRejections ==
    GuardCalled =>
       /\ is_symlink(sd_entry) =>
             /\ ~sd_result.success
             /\ sd_result.message = "Cannot delete symbolic links"
             /\ sd_now = sd_entry
       /\ (sd_entry.kind = "file" /\ sd_entry.suffix = ".py") =>
             /\ ~sd_result.success
             /\ sd_result.message = "Unsafe extension: .py"
       /\ (sd_entry.is_home /\ path_exists(sd_entry)) => ~sd_result.success
       /\ (path_exists(sd_entry) /\ sd_entry.st_size > MaxDeleteSize) => ~sd_result.success

(* ------------------------------ C13 ------------------------------------ *)

Evaluated == rl_call = "evaluate_file" /\ rl_done /\ ~rl_result.raised

\* the list under key k of self.rules, empty when the key is absent
RuleList(k) == IF k \in DOMAIN self_rules THEN self_rules[k] ELSE <<>>

AgeExceeded == "max_age_days" \in DOMAIN self_rules /\ rl_file.age_days > self_rules.max_age_days
SizeExceeded == "min_size_mb" \in DOMAIN self_rules /\ rl_file.size > self_rules.min_size_mb * MiB
ExtensionHits == {i \in DOMAIN RuleList("delete_extensions") :
                    LowerSuffix(rl_file.extension) \in RuleList("delete_extensions")[i].lang}
NameHits == SelectSeq(RuleList("name_patterns"), LAMBDA pat : Lower(rl_file.name) \in pat.lang)
FolderHits == SelectSeq(RuleList("excluded_folders"), LAMBDA fld : IsSubstring(fld, rl_file.path))
CategoryHit ==
    /\ "categories" \in DOMAIN self_rules
    /\ categorize_file(rl_file) \in DOMAIN self_rules.categories
    /\ self_rules.categories[categorize_file(rl_file)]

\* the points the rules other than excluded_folders give
AdditivePoints ==
    (IF AgeExceeded THEN 1 ELSE 0) + (IF SizeExceeded THEN 1 ELSE 0)
    + (IF ExtensionHits # {} THEN 2 ELSE 0) + Len(NameHits)
    + (IF CategoryHit THEN 3 ELSE 0)

\* one reason per contribution, in the order age, size, extension, name
\* patterns, protected paths, category
ExpectedReasons ==
    (IF AgeExceeded THEN << <<"Old file", "">> >> ELSE <<>>)
    \o (IF SizeExceeded THEN << <<"Large file", "">> >> ELSE <<>>)
    \o (IF ExtensionHits # {}
        THEN LET first == CHOOSE i \in ExtensionHits : \A j \in ExtensionHits : i <= j
             IN << <<"Extension matches", RuleList("delete_extensions")[first].src>> >>
        ELSE <<>>)
    \o [i \in DOMAIN NameHits |-> <<"Name matches pattern", NameHits[i].src>>]
    \o [i \in DOMAIN FolderHits |-> <<"Protected folder", FolderHits[i]>>]
    \o (IF CategoryHit THEN << <<"Category", categorize_file(rl_file)>> >> ELSE <<>>)

\* C13: whenever evaluate_file returns, the decision is score >= 2, where
\* the score is +1 for age above max_age_days, +1 for size above min_size_mb
\* in bytes, +2 once if a delete_extensions pattern matches, +1 per matching
\* name pattern, -10 per excluded_folders entry contained in the path and +3
\* if the file's category has delete = true; reasons holds one entry per
\* contribution in that order; under the empty configuration the score is 0
\* and the decision false.
C13_ScoreAndDecision ==
    Evaluated =>
       /\ rl_result.score = AdditivePoints - ProtectionPenalty * Len(FolderHits)
       /\ rl_result.decision = (rl_result.score >= 2)
       /\ rl_result.reasons = ExpectedReasons
       /\ self_rules = EmptyDict => rl_result.score = 0 /\ ~rl_result.decision

\* a file was scored under every kind of rule at once, a protected folder
\* and two name patterns among them
C13_Witness ==
    /\ Evaluated
    /\ AgeExceeded /\ SizeExceeded /\ ExtensionHits # {} /\ CategoryHit
    /\ Len(NameHits) = 2 /\ Len(FolderHits) = 2
    /\ Len(rl_result.reasons) = 8

(* ------------------------------ C14 ------------------------------------ *)

\* self.rules without its excluded_folders key
WithoutFolders == [k \in DOMAIN self_rules \ {"excluded_folders"} |-> self_rules[k]]

\* C14 as stated: a file whose path contains a protected-path substring has
\* its score reduced by exactly 10 whatever other rules match, and its
\* decision is false unless the other rules give at least 12 points.
C14_Original ==
    (Evaluated /\ Len(FolderHits) >= 1) =>
       /\ rl_result.score = evaluate_file(WithoutFolders, rl_file).score - 10
       /\ rl_result.decision => AdditivePoints >= 12

\* C14 amended: a file whose path contains a protected-path substring has
\* its score reduced by exactly 10 for each excluded_folders entry its path
\* contains, whatever other rules match, and its decision is false unless
\* the other rules give at least 12 points.
C14_Amended ==
    (Evaluated /\ Len(FolderHits) >= 1) =>
       /\ rl_result.score = evaluate_file(WithoutFolders, rl_file).score - 10 * Len(FolderHits)
       /\ rl_result.decision => AdditivePoints >= 12

\* a protected file is to be deleted all the same, on twelve points
C14_Witness ==
    /\ Evaluated
    /\ Len(FolderHits) = 1
    /\ AdditivePoints = 12
    /\ rl_result.decision

(* ------------------------------ C15 ------------------------------------ *)

\* C15 as stated: under a configuration with every optional field absent,
\* filter_files returns the empty list whatever list of records it is given.
C15_EmptyConfigMatchesNothing ==
    (fl_done /\ fl_rules = EmptyDict) => fl_result = <<>>

(* ------------------------------ C16 ------------------------------------ *)

\* whether the rule switched by key k is on; on_by_default says what an
\* absent key means
RuleOn(k, on_by_default) == IF k \in DOMAIN fl_rules THEN fl_rules[k] ELSE on_by_default

\* the threshold under key k
Threshold(k, default) == IF k \in DOMAIN fl_rules THEN fl_rules[k] ELSE default

TempRuleHolds(f) == RuleOn("delete_tmp", TRUE) /\ f.extension \in {ExtTmp, ExtTemp}
LogRuleHolds(f) == RuleOn("delete_log", FALSE) /\ f.extension = ExtLog
CacheRuleHolds(f) == RuleOn("delete_cache", FALSE) /\ IsSubstring(NameCache, Lower(f.name))
CustomRuleHolds(f) ==
    /\ "custom_extensions" \in DOMAIN fl_rules
    /\ \E i \in DOMAIN fl_rules.custom_extensions : fl_rules.custom_extensions[i] = f.extension
AgeRuleHolds(f) == f.age_days > Threshold("file_age_days", 30)
SizeRuleHolds(f) == f.size > Threshold("min_size_mb", 1) * 1024 * 1024

AnyRuleHolds(f) ==
    \/ TempRuleHolds(f) \/ LogRuleHolds(f) \/ CacheRuleHolds(f)
    \/ CustomRuleHolds(f) \/ AgeRuleHolds(f) \/ SizeRuleHolds(f)

\* C16: filter_files returns, in the order given, exactly the files for
\* which at least one of the six rules holds (temp rule on and extension
\* .tmp or .temp; log rule on and extension .log; cache rule on and "cache"
\* in the lower-cased name; extension in the custom list; age in days above
\* the age threshold; size above the size threshold in bytes): no rule
\* vetoes another, and a built-in rule that is off or does not match does
\* not keep a later built-in rule from matching.
C16_UnionOfRules ==
    fl_done => fl_result = SelectSeq(fl_files, LAMBDA f : AnyRuleHolds(f))

\* the temp rule is on and does not match b.log, the log rule retains it;
\* o.bak, at both thresholds exactly, is not retained
C16_Witness ==
    /\ fl_done
    /\ fl_rules = [delete_tmp |-> TRUE, delete_log |-> TRUE]
    /\ fl_files = <<FileBLog, FileOldBak>>
    /\ fl_result = <<FileBLog>>

(* ------------------------------ C17 ------------------------------------ *)

InScenario == fl_done /\ fl_files = ScenarioFiles /\ fl_rules = ScenarioRules

\* C17 as stated: for a.tmp (2 KB, 45 days), b.log (500 KB, 2 days) and
\* notes.txt (10 MB, 1 day) under {delete_tmp: true, file_age_days: 30,
\* min_size_mb: 1}, filter_files returns exactly [a.tmp].
C17_Original == InScenario => fl_result = <<FileATmp>>

\* C17 amended: for the same three records and configuration, filter_files
\* returns exactly [a.tmp, notes.txt]: a.tmp by the temp and age rules,
\* notes.txt because its 10 MB exceed the 1 MB size threshold; b.log is not
\* retained.
C17_Amended == InScenario => fl_result = <<FileATmp, FileNotesTxt>>

\* the scenario has been run and b.log is not among the files retained
C17_Witness ==
    /\ InScenario
    /\ Len(fl_result) = 2
    /\ \A i \in DOMAIN fl_result : fl_result[i] # FileBLog

(* ------------------------------ C18 ------------------------------------ *)

\* a step in which scan_files returns: the folder is as it was and a scan
\* result is there
ScanReturns == cl_folder' = cl_folder /\ cl_scanned'.called

\* C18 as stated: scan_files fails with a ScanError whenever the root path
\* does not exist or is not a directory, and returns nothing then.
C18_ScanErrorOnBadRoot ==
    [][(ScanReturns /\ cl_folder.kind # "directory") => cl_scanned'.raised]_all_vars

(* ------------------------------ C19 ------------------------------------ *)

\* the files of the folder that os.stat can read, in traversal order
Readable == SelectSeq(cl_folder.entries, LAMBDA en : en.stat_ok)

\* the sum of the size fields of a list of records
SizesOf(files) == SumOver(DOMAIN files, [i \in DOMAIN files |-> files[i].size])

\* C19: when a scan_files call returns, it has not raised, it returns one
\* record per file whose metadata could be read and none for the others,
\* and total_size is the sum of the sizes of exactly the records returned,
\* whatever total_size was before the call.
C19_TotalIsSumOfReturned ==
    [][ScanReturns =>
          /\ ~cl_scanned'.raised
          /\ Len(cl_scanned'.files) = Len(Readable)
          /\ \A i \in DOMAIN Readable :
                /\ cl_scanned'.files[i].name = Readable[i].filename
                /\ cl_scanned'.files[i].size = Readable[i].st_size
          /\ cl_total_size' = SizesOf(cl_scanned'.files)
          /\ cl_scanned'.total_size = cl_total_size']_all_vars

\* a scan of two files, the first of them unreadable, returned the second
\* alone and its size as the total
C19_Witness ==
    /\ cl_scanned.called
    /\ Len(cl_folder.entries) = 2
    /\ ~cl_folder.entries[1].stat_ok /\ cl_folder.entries[2].stat_ok
    /\ Len(cl_scanned.files) = 1
    /\ cl_scanned.files[1].name = cl_folder.entries[2].filename
    /\ cl_total_size = cl_folder.entries[2].st_size
    /\ cl_folder.entries[1].st_size = 2

(* ------------------------------ C20 ------------------------------------ *)

Categorized == rl_call = "categorize_file" /\ rl_done

\* C20 as stated: categorize_file returns the first category that matches
\* in the order images (extension or MIME), documents, videos, audio,
\* archives, temporary, logs, other; a record with a temporary extension is
\* 'temporary' and one with extension .log is 'logs', whatever its MIME type.
C20_CategoryPrecedence ==
    Categorized =>
       LET ext == LowerSuffix(rl_file.extension)
       IN /\ ext \in temp_exts => rl_category = "temporary"
          /\ ext = ".log" => rl_category = "logs"
          /\ (ext \in image_exts \/ MimeContains("image", rl_file.mime_type))
                => rl_category = "images"
          /\ rl_category \in {"images", "documents", "videos", "audio", "archives",
                              "temporary", "logs", "other"}

(* ------------------------------ C21 ------------------------------------ *)

Validated == rl_call = "validate_rules" /\ rl_done

\* an integer that is not negative; Python counts True and False as the
\* integers 1 and 0
NonNegativeInteger(x) == x.type \in {"int", "bool"} /\ x.v >= 0
NonNegativeNumber(x) == x.type \in {"int", "bool", "float"} /\ x.v >= 0

AgeOffends == "max_age_days" \in DOMAIN self_rules /\ ~NonNegativeInteger(self_rules.max_age_days)
SizeOffends == "min_size_mb" \in DOMAIN self_rules /\ ~NonNegativeNumber(self_rules.min_size_mb)

\* C21: validate_rules never raises; its error list is empty exactly when
\* max_age_days, if present, is a non-negative integer and min_size_mb, if
\* present, is a non-negative number; it holds one error for each of the
\* two fields that offends and nothing else, whatever the pattern fields
\* hold.
C21_ValidateThresholds ==
    Validated =>
       /\ ~rl_errors.raised
       /\ (rl_errors.errors = <<>>) <=> (~AgeOffends /\ ~SizeOffends)
       /\ Len(rl_errors.errors) = (IF AgeOffends THEN 1 ELSE 0) + (IF SizeOffends THEN 1 ELSE 0)
       /\ AgeOffends => rl_errors.errors[1] = "max_age_days must be a positive integer"
       /\ SizeOffends =>
             rl_errors.errors[Len(rl_errors.errors)] = "min_size_mb must be a positive number"

\* a zero age threshold passes, a negative size threshold is reported, and
\* the malformed name pattern is not
C21_Witness ==
    /\ Validated
    /\ self_rules = [max_age_days |-> PyInt(0), min_size_mb |-> PyFloat(-1),
                     name_patterns |-> <<PatBad>>]
    /\ rl_errors.errors = <<"min_size_mb must be a positive number">>

(* ------------------------------ C22 ------------------------------------ *)

\* C22 as stated: a malformed pattern in delete_extensions or name_patterns
\* counts as not matching: evaluate_file returns a decision for every file,
\* the other rules scored as usual.
C22_BadPatternNeverMatches ==
    (rl_call = "evaluate_file" /\ rl_done) =>
       /\ ~rl_result.raised
       /\ rl_result.score = AdditivePoints - ProtectionPenalty * Len(FolderHits)

(* ------------------------------ C23 ------------------------------------ *)

RoundTripped == st_save = "written" /\ st_loaded # NotLoaded

\* C23: once save() has written settings.json, load() in a fresh
\* SettingsManager gives a 'rules' value equal to the one saved, whatever
\* nesting of strings, numbers, booleans and lists it is made of.
C23_RulesRoundTrip ==
    RoundTripped =>
       /\ HasKey(st_loaded, KeyRules)
       /\ Lookup(st_loaded, KeyRules) = Lookup(st_settings, KeyRules)

\* rules with a negative int, a float and a list holding a string with a
\* quote and a backslash and a nested list went through the file
C23_Witness ==
    /\ RoundTripped
    /\ Lookup(st_settings, KeyRules) =
          PyDict(<< <<KeyFileAgeDays, PyInt(-1)>>, <<KeyMinSizeMb, PyFloat(2)>>,
                    <<KeyCustomExtensions,
                      PyList(<<PyString(StrQuoted), PyList(<<PyInt(0)>>)>>)>> >>)
    /\ Lookup(st_loaded, KeyRules) = Lookup(st_settings, KeyRules)

(* ------------------------------ C24 ------------------------------------ *)

\* C24 as stated: a move operation relocates the file into the target
\* folder, or fails on a collision leaving the destination as it was; so a
\* file a move has been run on is either gone from its path, the outcome a
\* success, or the outcome is a failure that says why.
C24_MoveRelocates ==
    \A i \in Files :
       (operation = "move" /\ Ran(i) /\ ~outcome[i].raised) =>
          \/ outcome[i].result.success /\ disk[i] = Absent
          \/ ~outcome[i].result.success /\ outcome[i].result.error # NoError

(* ------------------------------ C25 ------------------------------------ *)

\* C25: by the time the completion loop is entered every file has been
\* submitted; process_batch returns only when every submitted operation has
\* run to its end; and an operation that has started or ended is never
\* started again: each file is operated on exactly once, stop request or
\* not.
C25_EveryFileRunsOnce ==
    [][/\ (pc' \in {"loop", "exit_pool", "emit", "done"}) =>
             /\ submitted' = Len(current_batch')
             /\ \A i \in DOMAIN future' : future'[i] # "none"
       /\ (pc' = "done") => \A i \in DOMAIN future' : future'[i] = "finished"
       /\ \A i \in DOMAIN future :
             /\ future[i] = "running" => future'[i] \in {"running", "finished"}
             /\ future[i] = "finished" => future'[i] = "finished" /\ outcome'[i] = outcome[i]
             /\ future[i] = "pending" => future'[i] \in {"pending", "running"}]_vars

\* a delete batch was stopped before anything was aggregated and has
\* returned: every file is gone from the disk all the same
C25_Witness ==
    /\ Returned /\ stop_requested
    /\ operation = "delete"
    /\ total_files = MaxFiles /\ processed = 0
    /\ \A i \in Files : Ran(i) /\ Succeeded(i) /\ disk[i] = Absent

(* ------------------------------ C26 ------------------------------------ *)

\* C26: process_batch starts by clearing the stop flag, whatever it was,
\* and a batch returns with fewer completions aggregated than it has files
\* only if stop_processing was called after that: a call made before
\* process_batch began changes nothing in the batch.
C26_StartsWithFlagCleared ==
    [][/\ (pc = "idle" /\ pc' # "idle") => ~stop_requested'
       /\ (pc' = "done" /\ processed' < Len(current_batch')) => stop_requested']_vars

\* stop_processing had been called before process_batch: the batch has
\* aggregated every file and returned, the flag cleared
C26_Witness ==
    /\ Returned /\ ~stop_requested
    /\ total_files = MaxFiles /\ processed = total_files
    /\ results.success + results.failed = total_files

(* ------------------------------ C27 ------------------------------------ *)

\* C27: throughout process_batch and in the summary it returns, errors has
\* as many entries as failed counts and skipped is 0; a move or compress
\* outcome never succeeds and its entry in errors is None.
C27_ErrorsMatchFailed ==
    /\ Len(results.errors) = results.failed
    /\ results.skipped = 0
    /\ Returned => /\ Len(returned.errors) = returned.failed
                   /\ returned.skipped = 0
    /\ operation # "delete" =>
          /\ results.success = 0
          /\ \A i \in Files : (Ran(i) /\ ~outcome[i].raised) =>
                ~outcome[i].result.success /\ outcome[i].result.error = NoError
          /\ \A k \in DOMAIN results.errors :
                results.errors[k] = NoError \/ results.errors[k][1] \in {"KeyError", "TimeoutError"}

\* a compress batch has returned: every file failed with None for an error
C27_Witness ==
    /\ Returned /\ operation = "compress"
    /\ total_files = MaxFiles
    /\ returned.failed = total_files
    /\ returned.errors = [k \in 1..total_files |-> NoError]

(* ------------------------------ C28 ------------------------------------ *)

\* the records clean_files is about to delete, from the folder as it is
Retained == filter_files(WithAge(scan_files(cl_folder, cl_total_size).files), cn_rules)

\* those of them that os.remove removes
Removable == SelectSeq(Retained, LAMBDA f : EntryOf(cl_folder, f).remove_ok)

\* C28: when clean_files returns, deleted + errors is the number of files
\* filter_files retained, deleted counts every retained file whose removal
\* succeeded, wherever a failed removal came before it, space_freed is the
\* sum of the scanned sizes of exactly those, total_scanned is the number
\* of records scanned, and the callback has been given one percentage per
\* retained file, never decreasing and ending at 100.
C28_CleanSummary ==
    [][(~cn_done /\ cn_done') =>
          /\ cn_result'.deleted + cn_result'.errors = Len(Retained)
          /\ cn_result'.deleted = Len(Removable)
          /\ cn_result'.space_freed = SizesOf(Removable)
          /\ cn_result'.total_scanned = Len(Readable)
          /\ \A i \in DOMAIN cl_folder.entries :
                (\E k \in DOMAIN cl_folder'.entries : cl_folder'.entries[k] = cl_folder.entries[i])
                   <=> ~(\E k \in DOMAIN Removable :
                            Removable[k].name = cl_folder.entries[i].filename)
          /\ IF cn_callback
             THEN /\ Len(cn_emitted') = Len(Retained)
                  /\ \A k \in 1..(Len(cn_emitted') - 1) : cn_emitted'[k] <= cn_emitted'[k + 1]
                  /\ Len(Retained) > 0 => cn_emitted'[Len(cn_emitted')] = 100
             ELSE cn_emitted' = <<>>]_all_vars

\* two files were scanned and retained; the removal of the first failed,
\* it is still in the folder, and the second was removed after it
C28_Witness ==
    /\ cn_done
    /\ cn_result = [deleted |-> 1, space_freed |-> 2, errors |-> 1, total_scanned |-> 2]
    /\ cn_emitted = <<50, 100>>
    /\ Len(cl_folder.entries) = 1
    /\ cl_folder.entries[1].filename = cl_scanned.files[1].name
    /\ ~cl_folder.entries[1].remove_ok

(* ------------------------------ C29 ------------------------------------ *)

\* the threads of s that are inside the loop of run_scheduler
LiveLoops(s) == {t \in 1..MaxThreads : sc_thread[t].owner = s /\ sc_thread[t].at \in {"while", "sleep"}}

\* C29 as stated: whatever start() and stop() calls were made on a
\* Scheduler, at most one run_scheduler loop of it is live.
C29_AtMostOneLoop == \A s \in Schedulers : Cardinality(LiveLoops(s)) <= 1

(* ------------------------------ C30 ------------------------------------ *)

\* C30 as stated: the descriptors of each Scheduler name, one for one, the
\* jobs still registered with the schedule module on its behalf.
C30_DescriptorsMatchRegistry ==
    \A s \in Schedulers :
       /\ {sc_scheduled_jobs[s][i].id : i \in DOMAIN sc_scheduled_jobs[s]}
             = {j \in sc_jobs : j.owner = s}
       /\ \A i, k \in DOMAIN sc_scheduled_jobs[s] :
             sc_scheduled_jobs[s][i].id = sc_scheduled_jobs[s][k].id => i = k

====
